---- MODULE Spec2Model ----
(***************************************************************************)
(* Modular decomposition of undirected graphs                              *)
(* (sage/graphs/graph_decompositions/modular_decomposition.py).            *)
(*                                                                         *)
(* Two decomposers are modelled: habib_maurer_algorithm, a recursive pure  *)
(* function on graphs, and tedder_algorithm, which destructively rewrites  *)
(* an intrusive parent/first-child/sibling tree.  The intrusive tree is a  *)
(* heap: a sequence of node records addressed by their index, None = 0.    *)
(***************************************************************************)
EXTENDS Integers, Sequences, FiniteSets, TLC

\* Largest order n for which every graph on the vertices 1..n is an input.
MaxN == 4

None == 0

-----------------------------------------------------------------------------
(* Sequences and sets *)

\* sorted(S) for a finite set of integers
SetToSortedSeq(S) ==
  [k \in 1..Cardinality(S) |->
     CHOOSE x \in S : Cardinality({y \in S : y < x}) = k - 1]

Range(s) == {s[i] : i \in 1..Len(s)}

RECURSIVE FlattenSeq(_)
\* concatenation of a sequence of sequences
FlattenSeq(ss) ==
  IF ss = <<>> THEN <<>> ELSE Head(ss) \o FlattenSeq(Tail(ss))

\* s with the element at position i removed (list.pop(i), 1-based)
RemoveAt(s, i) == SubSeq(s, 1, i - 1) \o SubSeq(s, i + 1, Len(s))

\* s with x inserted so that it lands at position i (list.insert, 1-based)
InsertAt(s, i, x) == SubSeq(s, 1, i - 1) \o <<x>> \o SubSeq(s, i, Len(s))

Min(S) == CHOOSE x \in S : \A y \in S : x <= y

-----------------------------------------------------------------------------
(* The host graph type: a vertex set V and a set E of two-element sets.    *)

Pairs(V) == {{u, v} : u, v \in V} \ {{u} : u \in V}

\* every simple undirected graph on the vertex set V
GraphsOn(V) == {[V |-> V, E |-> es, directed |-> FALSE] : es \in SUBSET Pairs(V)}

\* every loopless directed graph on the vertex set V: E holds arcs <<u, v>>
DiGraphsOn(V) ==
  {[V |-> V, E |-> es, directed |-> TRUE] :
     es \in SUBSET {a \in V \X V : a[1] # a[2]}}

is_directed(g) == g.directed

order(g) == Cardinality(g.V)

\* graph.neighbors(v), as a set
neighbors(g, v) == {u \in g.V : {u, v} \in g.E}

has_edge(g, u, v) == {u, v} \in g.E

\* graph.subgraph(vertices=vs)
subgraph(g, vs) ==
  [V |-> g.V \cap vs, E |-> {e \in g.E : e \subseteq vs}, directed |-> g.directed]

\* graph.subgraph(edges=es): every vertex is kept, only the given edges are
subgraph_edges(g, es) == [V |-> g.V, E |-> g.E \cap es, directed |-> g.directed]

complement(g) == [V |-> g.V, E |-> Pairs(g.V) \ g.E, directed |-> g.directed]

RECURSIVE Reach(_, _)
\* the vertices reachable from the set S
Reach(g, S) ==
  LET T == S \cup {u \in g.V : \E v \in S : {u, v} \in g.E}
  IN IF T = S THEN S ELSE Reach(g, T)

RECURSIVE ComponentsFrom(_, _)
\* components in order of discovery: each starts at the least unseen vertex
ComponentsFrom(g, unseen) ==
  IF unseen = {} THEN <<>>
  ELSE LET c == Reach(g, {Min(unseen)})
       IN <<c>> \o ComponentsFrom(g, unseen \ c)

RECURSIVE StableBySizeDesc(_)
\* list.sort(key=len, reverse=True): stable, largest first
StableBySizeDesc(cs) ==
  IF cs = <<>> THEN <<>>
  ELSE LET big == CHOOSE i \in 1..Len(cs) :
                    /\ \A j \in 1..Len(cs) : Cardinality(cs[j]) <= Cardinality(cs[i])
                    /\ \A j \in 1..(i - 1) : Cardinality(cs[j]) < Cardinality(cs[i])
       IN <<cs[big]>> \o StableBySizeDesc(RemoveAt(cs, big))

\* graph.connected_components(): a list of vertex sets, largest first
connected_components(g) == StableBySizeDesc(ComponentsFrom(g, g.V))

is_connected(g) == g.V = {} \/ Reach(g, {Min(g.V)}) = g.V

-----------------------------------------------------------------------------
(* Decomposition tree nodes (class Node): a type and an ordered list of    *)
(* children; a NORMAL node's only child is its vertex.                     *)

Node(node_type) == [node_type |-> node_type, children |-> <<>>]

create_prime_node == Node("PRIME")

create_parallel_node == Node("PARALLEL")

\* a faulty constructor: the node made for a series module is typed PARALLEL
create_series_typed_parallel == Node("PARALLEL")

create_series_node == Node("SERIES")

create_normal_node(vertex) == [node_type |-> "NORMAL", children |-> <<vertex>>]

\* what a call that raised leaves in place of a tree
Raised(what) == [node_type |-> "RAISED", children |-> <<>>, error |-> what]

IsRaised(t) == t.node_type = "RAISED"

RECURSIVE get_vertices(_)
\* the vertices of the leaves, left to right
get_vertices(root) ==
  IF root.node_type = "NORMAL" THEN <<root.children[1]>>
  ELSE FlattenSeq([i \in 1..Len(root.children) |-> get_vertices(root.children[i])])

-----------------------------------------------------------------------------
(* Habib-Maurer algorithm *)

RECURSIVE UnitedWith(_, _)
\* the union of the sets of the family that a chain of overlapping sets
\* links to the set c
UnitedWith(sets, c) ==
  LET d == c \cup UNION {s \in sets : s \cap c # {}}
  IN IF d = c THEN c ELSE UnitedWith(sets, d)

\* a faulty union-find: all the sets end in one piece
merge_into_one(sets) == IF sets = {} THEN {} ELSE {UNION sets}

\* the partition generated by a family of sets: overlapping sets are united
MergeOverlapping(sets) == {UnitedWith(sets, s) : s \in sets}

\* the edges {v, vi} united by the loop body for v: one set per component of
\* the complement of the neighbourhood of v
GammaUnions(g, v) ==
  LET neighborhood == subgraph(g, neighbors(g, v))
      comps == connected_components(complement(neighborhood))
  IN {{{vi, v} : vi \in comps[i]} : i \in 1..Len(comps)}

\* a faulty computation: no two edges are united
gamma_single_edges(g) == {{e} : e \in g.E}

\* gamma_classes(graph): the classes of edges; the dictionary's key of a class
\* is the set of vertices its edges touch
gamma_classes(g) ==
  MergeOverlapping({{e} : e \in g.E} \cup UNION {GammaUnions(g, v) : v \in g.V})

ClassVertices(class) == UNION class

NoClasses == [computed |-> FALSE, classes |-> {}]

\* the elements of s in order of first appearance
Dedup(s) ==
  LET firsts == {i \in 1..Len(s) : \A j \in 1..(i - 1) : s[j] # s[i]}
      order_of_firsts == SetToSortedSeq(firsts)
  IN [k \in 1..Len(order_of_firsts) |-> s[order_of_firsts[k]]]

\* the keys of d in insertion order: d[v1] is created when v1 is first met as
\* a neighbour while v runs over the vertices of sub
DictKeys(sub) ==
  LET vs == SetToSortedSeq(sub.V)
  IN Dedup(FlattenSeq([i \in 1..Len(vs) |-> SetToSortedSeq(neighbors(sub, vs[i]))]))

\* d1.values(): the keys of d bucketed by identical neighbour set in sub, the
\* buckets in order of their first key
Buckets(sub) ==
  LET keys == DictKeys(sub)
      firsts == Dedup([i \in 1..Len(keys) |-> neighbors(sub, keys[i])])
  IN [j \in 1..Len(firsts) |-> {k \in Range(keys) : neighbors(sub, k) = firsts[j]}]

\* a node whose children are the given trees; a raise in a child propagates
WithChildren(root, trees) ==
  IF \E i \in 1..Len(trees) : IsRaised(trees[i])
  THEN trees[CHOOSE i \in 1..Len(trees) :
               IsRaised(trees[i]) /\ \A j \in 1..(i - 1) : ~IsRaised(trees[j])]
  ELSE [root EXCEPT !.children = trees]

RECURSIVE habib_maurer_rec(_, _)
\* the recursive calls: the graph is an induced subgraph of an undirected graph
habib_maurer_rec(graph, g_classes) ==
  IF order(graph) = 0 THEN create_prime_node
  ELSE IF order(graph) = 1 THEN create_normal_node(CHOOSE v \in graph.V : TRUE)
  ELSE IF ~is_connected(graph)
  THEN LET comps == connected_components(graph)
       IN WithChildren(create_parallel_node,
            [i \in 1..Len(comps) |-> habib_maurer_rec(subgraph(graph, comps[i]), g_classes)])
  ELSE LET g_comp == complement(graph) IN
    IF is_connected(g_comp)
    THEN LET gc == IF g_classes.computed THEN g_classes
                   ELSE [computed |-> TRUE, classes |-> gamma_classes(graph)]
             vertex_set == graph.V
             found == {c \in gc.classes : ClassVertices(c) = vertex_set}
         IN IF found = {} THEN Raised("KeyError")
            ELSE LET edges == CHOOSE c \in found : TRUE
                     sub == subgraph_edges(graph, edges)
                     sgs == Buckets(sub)
                 IN WithChildren(create_prime_node,
                      [i \in 1..Len(sgs) |-> habib_maurer_rec(subgraph(graph, sgs[i]), gc)])
    ELSE LET comps == connected_components(g_comp)
         IN WithChildren(create_series_node,
              [i \in 1..Len(comps) |-> habib_maurer_rec(subgraph(graph, comps[i]), g_classes)])

\* a faulty entry: the test of the order comes before the test of directedness
habib_maurer_order_first(graph) ==
  IF order(graph) = 0 THEN create_prime_node
  ELSE IF is_directed(graph) THEN Raised("ValueError: Graph must be undirected")
  ELSE habib_maurer_rec(graph, NoClasses)

\* habib_maurer_algorithm(graph) as the caller invokes it (g_classes=None)
habib_maurer_algorithm(graph) ==
  IF is_directed(graph) THEN Raised("ValueError: Graph must be undirected")
  ELSE habib_maurer_rec(graph, NoClasses)

\* modular_decomposition = habib_maurer_algorithm
modular_decomposition(graph) == habib_maurer_algorithm(graph)

-----------------------------------------------------------------------------
(* Nested tuples, tree equivalence, relabeling *)

\* Python values met by the (de)serialisers: a tuple, a list, or anything
\* else (a vertex label, a NodeType), which is an atom holding that value
PyTuple(items) == [py |-> "tuple", items |-> items]

PyList(items) == [py |-> "list", items |-> items]

PyAtom(v) == [py |-> "atom", v |-> v]

\* the object a Python value stands for: the label itself for an atom
PyObject(value) == IF value.py = "atom" THEN value.v ELSE value

RECURSIVE tree_to_nested_tuple(_)
\* (root.node_type, [tree_to_nested_tuple(x) for x in root.children]), or the
\* vertex label of a leaf
tree_to_nested_tuple(root) ==
  IF root.node_type = "NORMAL" THEN PyAtom(root.children[1])
  ELSE PyTuple(<<PyAtom(root.node_type),
                 PyList([i \in 1..Len(root.children) |->
                           tree_to_nested_tuple(root.children[i])])>>)

RECURSIVE nested_tuple_to_tree(_)
\* anything that is not a tuple becomes the label of a leaf; of a tuple,
\* nest[0] is the type and every element of nest[1:] is a child
nested_tuple_to_tree(nest) ==
  IF nest.py # "tuple" THEN create_normal_node(PyObject(nest))
  ELSE [node_type |-> nest.items[1].v,
        children |-> [i \in 1..(Len(nest.items) - 1) |->
                        nested_tuple_to_tree(nest.items[i + 1])]]

\* node_id of equivalent_trees: (type, frozenset of the vertices below)
node_id(root) == <<root.node_type, Range(get_vertices(root))>>

\* child_map after the loop over root2.children: a later child replaces an
\* earlier one that has the same node_id
child_map(root2, id) ==
  LET hits == {i \in 1..Len(root2.children) : node_id(root2.children[i]) = id}
  IN root2.children[CHOOSE i \in hits : \A j \in hits : j <= i]

\* a faulty comparison: children that have the same node_id are not compared
same_child_ids(root1, root2) ==
  IF root1.node_type # root2.node_type THEN FALSE
  ELSE IF Len(root1.children) # Len(root2.children) THEN FALSE
  ELSE IF root1.node_type = "NORMAL" THEN root1.children[1] = root2.children[1]
  ELSE \A i \in 1..Len(root1.children) :
         \E j \in 1..Len(root2.children) :
           node_id(root2.children[j]) = node_id(root1.children[i])

RECURSIVE equivalent_trees(_, _)
equivalent_trees(root1, root2) ==
  IF root1.node_type # root2.node_type THEN FALSE
  ELSE IF Len(root1.children) # Len(root2.children) THEN FALSE
  ELSE IF root1.node_type = "NORMAL" THEN root1.children[1] = root2.children[1]
  ELSE \A i \in 1..Len(root1.children) :
         LET node == root1.children[i]
             id == node_id(node)
         IN /\ \E j \in 1..Len(root2.children) : node_id(root2.children[j]) = id
            /\ equivalent_trees(node, child_map(root2, id))

\* a faulty relabeling: the leaves keep their labels
relabel_keep_labels(root, perm) == root

RECURSIVE relabel_rec(_, _)
\* the part of relabel_tree after perm has been made a dictionary
relabel_rec(root, perm) ==
  IF root.node_type = "NORMAL" THEN create_normal_node(perm[root.children[1]])
  ELSE [node_type |-> root.node_type,
        children |-> [i \in 1..Len(root.children) |->
                        relabel_rec(root.children[i], perm)]]

\* relabel_tree(root, perm) for perm a dictionary (kind "dict": map) or a
\* list/tuple (kind "list": items, zipped with the sorted vertices of root)
relabel_tree(root, perm) ==
  IF perm.kind = "list"
  THEN LET vs == SetToSortedSeq(Range(get_vertices(root)))
           k == IF Len(vs) <= Len(perm.items) THEN Len(vs) ELSE Len(perm.items)
       IN relabel_rec(root, [v \in {vs[i] : i \in 1..k} |->
                               perm.items[CHOOSE i \in 1..k : vs[i] = v]])
  ELSE relabel_rec(root, perm.map)

\* graph.relabel(perm, inplace=False) for a dictionary perm
relabel_graph(g, perm) ==
  [V |-> {perm[v] : v \in g.V},
   E |-> {{perm[u] : u \in e} : e \in g.E},
   directed |-> g.directed]

-----------------------------------------------------------------------------
(* Tedder algorithm: the intrusive tree.                                   *)
(* A heap h is a sequence of node records; a node is its index in h and    *)
(* None is 0.  A record has the attributes of its Python class, named in   *)
(* "kind", and no others.                                                  *)

_TedderTreeNode ==
  [parent |-> None, first_child |-> None, left_sibling |-> None,
   right_sibling |-> None, num_children |-> 0]

_TedderMDNode(node_type) ==
  [kind |-> "_TedderMDNode",
   parent |-> None, first_child |-> None, left_sibling |-> None,
   right_sibling |-> None, num_children |-> 0,
   type |-> node_type, comp_number |-> -1, tree_number |-> -1,
   num_marks |-> 0, split_type |-> "NO_SPLIT"]

\* a leaf is an _TedderMDNode built with the default node_type, PRIME
_TedderMDLeafNode(vertex) ==
  [kind |-> "_TedderMDLeafNode",
   parent |-> None, first_child |-> None, left_sibling |-> None,
   right_sibling |-> None, num_children |-> 0,
   type |-> "PRIME", comp_number |-> -1, tree_number |-> -1,
   num_marks |-> 0, split_type |-> "NO_SPLIT",
   alpha |-> <<>>, neighbors |-> <<>>, visited |-> FALSE, vertex |-> vertex]

_TedderFactPermElement(index) ==
  [kind |-> "_TedderFactPermElement",
   parent |-> None, first_child |-> None, left_sibling |-> None,
   right_sibling |-> None, num_children |-> 0,
   index |-> index, mu |-> None, has_right_comp_fragment |-> FALSE,
   has_left_co_comp_fragment |-> FALSE, has_right_layer_neighbor |-> FALSE,
   num_marks |-> 0, neighbors |-> <<>>]

\* _TedderSubProblem() without a leaf
_TedderSubProblem ==
  [kind |-> "_TedderSubProblem",
   parent |-> None, first_child |-> None, left_sibling |-> None,
   right_sibling |-> None, num_children |-> 0,
   connected |-> FALSE, active |-> FALSE, pivot |-> None]

\* the value after the last of a run of statements, given the values before
\* the run and the value after it: the values before are evaluated first
After(values) == values[Len(values)]

\* the node a constructor call returns, once the record is appended to h
New(h) == Len(h) + 1

remove(h, self) ==
  LET s1(a) == IF a[self].parent # None
               THEN [a EXCEPT ![a[self].parent].num_children = @ - 1] ELSE a
      s2(a) == IF a[self].left_sibling # None
               THEN [a EXCEPT ![a[self].left_sibling].right_sibling = a[self].right_sibling]
               ELSE a
      s3(a) == IF a[self].right_sibling # None
               THEN [a EXCEPT ![a[self].right_sibling].left_sibling = a[self].left_sibling]
               ELSE a
      s4(a) == IF a[self].parent # None /\ a[a[self].parent].first_child = self
               THEN [a EXCEPT ![a[self].parent].first_child = a[self].right_sibling]
               ELSE a
      s5(a) == [a EXCEPT ![self].parent = None,
                         ![self].left_sibling = None,
                         ![self].right_sibling = None]
  IN After(<<h, s5(s4(s3(s2(s1(h)))))>>)

add_child(h, self, child) ==
  LET s1(a) == remove(a, child)
      s2(a) == IF a[self].first_child # None
               THEN [a EXCEPT ![a[self].first_child].left_sibling = child,
                              ![child].right_sibling = a[self].first_child]
               ELSE a
      s3(a) == [a EXCEPT ![self].first_child = child]
      s4(a) == [a EXCEPT ![child].parent = self]
      s5(a) == [a EXCEPT ![self].num_children = @ + 1]
  IN After(<<h, s5(s4(s3(s2(s1(h)))))>>)

has_no_children(h, self) == h[self].num_children = 0

has_only_one_child(h, self) == h[self].num_children = 1

\* a faulty replace_with: the replacement is not detached first
replace_without_detaching(h, self, replacement) ==
  LET s2(a) == [a EXCEPT ![replacement].left_sibling = a[self].left_sibling]
      s3(a) == [a EXCEPT ![replacement].right_sibling = a[self].right_sibling]
      s4(a) == IF a[self].left_sibling # None
               THEN [a EXCEPT ![a[self].left_sibling].right_sibling = replacement]
               ELSE a
      s5(a) == IF a[self].right_sibling # None
               THEN [a EXCEPT ![a[self].right_sibling].left_sibling = replacement]
               ELSE a
      s6(a) == [a EXCEPT ![replacement].parent = a[self].parent]
      s7(a) == IF a[self].parent # None /\ a[a[self].parent].first_child = self
               THEN [a EXCEPT ![a[self].parent].first_child = replacement]
               ELSE a
      s8(a) == [a EXCEPT ![self].parent = None,
                         ![self].left_sibling = None,
                         ![self].right_sibling = None]
  IN After(<<h, s8(s7(s6(s5(s4(s3(s2(h)))))))>>)

replace_with(h, self, replacement) ==
  LET s1(a) == remove(a, replacement)
      s2(a) == [a EXCEPT ![replacement].left_sibling = a[self].left_sibling]
      s3(a) == [a EXCEPT ![replacement].right_sibling = a[self].right_sibling]
      s4(a) == IF a[self].left_sibling # None
               THEN [a EXCEPT ![a[self].left_sibling].right_sibling = replacement]
               ELSE a
      s5(a) == IF a[self].right_sibling # None
               THEN [a EXCEPT ![a[self].right_sibling].left_sibling = replacement]
               ELSE a
      s6(a) == [a EXCEPT ![replacement].parent = a[self].parent]
      s7(a) == IF a[self].parent # None /\ a[a[self].parent].first_child = self
               THEN [a EXCEPT ![a[self].parent].first_child = replacement]
               ELSE a
      s8(a) == [a EXCEPT ![self].parent = None,
                         ![self].left_sibling = None,
                         ![self].right_sibling = None]
  IN After(<<h, s8(s7(s6(s5(s4(s3(s2(s1(h))))))))>>)

insert_before(h, self, just_before) ==
  LET s1(a) == remove(a, self)
      s2(a) == [a EXCEPT ![self].left_sibling = a[just_before].left_sibling]
      s3(a) == IF a[just_before].left_sibling # None
               THEN [a EXCEPT ![a[just_before].left_sibling].right_sibling = self]
               ELSE a
      s4(a) == [a EXCEPT ![self].right_sibling = just_before]
      s5(a) == [a EXCEPT ![just_before].left_sibling = self]
      s6(a) == [a EXCEPT ![self].parent = a[just_before].parent]
      s7(a) == IF a[just_before].parent # None
               THEN [a EXCEPT ![a[just_before].parent].num_children = @ + 1]
               ELSE a
      s8(a) == IF a[just_before].parent # None
                  /\ a[a[just_before].parent].first_child = just_before
               THEN [a EXCEPT ![a[self].parent].first_child = self]
               ELSE a
  IN After(<<h, s8(s7(s6(s5(s4(s3(s2(s1(h))))))))>>)

\* a faulty insert_after: the parent does not count the new child
insert_after_uncounted(h, self, just_after) ==
  LET s1(a) == remove(a, self)
      s2(a) == [a EXCEPT ![self].right_sibling = a[just_after].right_sibling]
      s3(a) == IF a[just_after].right_sibling # None
               THEN [a EXCEPT ![a[just_after].right_sibling].left_sibling = self]
               ELSE a
      s4(a) == [a EXCEPT ![self].left_sibling = just_after]
      s5(a) == [a EXCEPT ![just_after].right_sibling = self]
      s6(a) == [a EXCEPT ![self].parent = a[just_after].parent]
  IN After(<<h, s6(s5(s4(s3(s2(s1(h))))))>>)

insert_after(h, self, just_after) ==
  LET s1(a) == remove(a, self)
      s2(a) == [a EXCEPT ![self].right_sibling = a[just_after].right_sibling]
      s3(a) == IF a[just_after].right_sibling # None
               THEN [a EXCEPT ![a[just_after].right_sibling].left_sibling = self]
               ELSE a
      s4(a) == [a EXCEPT ![self].left_sibling = just_after]
      s5(a) == [a EXCEPT ![just_after].right_sibling = self]
      s6(a) == [a EXCEPT ![self].parent = a[just_after].parent]
      s7(a) == IF a[just_after].parent # None
               THEN [a EXCEPT ![a[just_after].parent].num_children = @ + 1]
               ELSE a
  IN After(<<h, s7(s6(s5(s4(s3(s2(s1(h)))))))>>)

make_first_child(h, self) ==
  IF h[self].parent # None /\ h[h[self].parent].first_child # self
  THEN LET new_right_sibling == h[h[self].parent].first_child
           s1(a) == remove(a, self)
           s2(a) == insert_before(a, self, new_right_sibling)
       IN s2(s1(h))
  ELSE h

RECURSIVE Chain(_, _)
\* the nodes met by "while current is not None: current = current.right_sibling"
Chain(h, current) ==
  IF current = None THEN <<>> ELSE <<current>> \o Chain(h, h[current].right_sibling)

\* the children of a node, left to right
Children(h, self) == Chain(h, h[self].first_child)

RECURSIVE get_leaves(_, _)
get_leaves(h, self) ==
  IF h[self].kind = "_TedderMDLeafNode" THEN <<self>>
  ELSE LET cs == Children(h, self)
       IN FlattenSeq([i \in 1..Len(cs) |-> get_leaves(h, cs[i])])

RECURSIVE add_children_loop(_, _, _)
add_children_loop(h, self, current_child) ==
  IF current_child = None THEN h
  ELSE LET next_child == h[current_child].right_sibling
       IN add_children_loop(add_child(h, self, current_child), self, next_child)

\* a faulty add_children_from: no child is taken over
add_no_children_from(h, self, parent) == h

add_children_from(h, self, parent) ==
  add_children_loop(h, self, h[parent].first_child)

RECURSIVE replace_by_children_loop(_, _, _)
replace_by_children_loop(h, self, current_child) ==
  IF current_child = None THEN h
  ELSE LET next_child == h[current_child].right_sibling
       IN replace_by_children_loop(insert_before(h, current_child, self), self, next_child)

replace_this_by_its_children(h, self) ==
  remove(replace_by_children_loop(h, self, h[self].first_child), self)

RECURSIVE remove_children_loop(_, _)
remove_children_loop(h, current_child) ==
  IF current_child = None THEN h
  ELSE LET next_child == h[current_child].right_sibling
       IN remove_children_loop(remove(h, current_child), next_child)

replace_children_with(h, self, replacement) ==
  add_child(remove_children_loop(h, h[self].first_child), self, replacement)

\* _TedderTreeNode.is_root
is_root_tree(h, self) == h[self].parent = None

-----------------------------------------------------------------------------
(* _TedderMDNode *)

RECURSIVE Subtree(_, _)
\* the nodes of the subtree rooted at self
Subtree(h, self) ==
  {self} \cup UNION {Subtree(h, c) : c \in Range(Children(h, self))}

\* replacement.copy(copy): the MD fields, none of the links
copy_md(h, self, copy) ==
  [h EXCEPT ![self].type = h[copy].type,
            ![self].comp_number = h[copy].comp_number,
            ![self].tree_number = h[copy].tree_number,
            ![self].num_marks = h[copy].num_marks,
            ![self].split_type = h[copy].split_type]

is_fully_marked(h, self) == h[self].num_marks = h[self].num_children

clear_marks(h, self) == [h EXCEPT ![self].num_marks = 0]

is_marked(h, self) == h[self].num_marks > 0

set_comp_number_for_subtree(h, self, comp_number) ==
  LET sub == Subtree(h, self)
  IN [n \in 1..Len(h) |->
        IF n \in sub THEN [h[n] EXCEPT !.comp_number = comp_number] ELSE h[n]]

set_tree_number_for_subtree(h, self, tree_number) ==
  LET sub == Subtree(h, self)
  IN [n \in 1..Len(h) |->
        IF n \in sub THEN [h[n] EXCEPT !.tree_number = tree_number] ELSE h[n]]

RECURSIVE number_comps_loop(_, _, _)
\* the loop over the children; gives the heap and the final comp_number
number_comps_loop(h, current_child, comp_number) ==
  IF current_child = None THEN [h |-> h, r |-> comp_number]
  ELSE number_comps_loop(set_comp_number_for_subtree(h, current_child, comp_number),
                         h[current_child].right_sibling, comp_number + 1)

\* gives the heap and the number of components counted
number_comps(h, self, comp_number, by_type) ==
  IF h[self].type = by_type
  THEN LET counted(res) == [h |-> res.h, r |-> res.r - comp_number]
       IN counted(number_comps_loop(h, h[self].first_child, comp_number))
  ELSE [h |-> set_comp_number_for_subtree(h, self, comp_number), r |-> 0]

\* _TedderMDNode.is_root: the parent is no _TedderMDNode (exactly that class)
is_root(h, self) ==
  h[self].parent = None \/ h[h[self].parent].kind # "_TedderMDNode"

RECURSIVE add_split_mark(_, _, _)
RECURSIVE mark_children_loop(_, _, _)

mark_children_loop(h, current_child, split_type) ==
  IF current_child = None THEN h
  ELSE mark_children_loop(add_split_mark(h, current_child, split_type),
                          h[current_child].right_sibling, split_type)

mark_children_by_split(h, self, split_type) ==
  mark_children_loop(h, h[self].first_child, split_type)

\* a faulty add_split_mark: the new mark takes the place of the old one
add_split_mark_overwriting(h, self, split_type) ==
  LET s1(a) == [a EXCEPT ![self].split_type = split_type]
      s2(a) == IF a[self].type = "PRIME" THEN mark_children_by_split(a, self, split_type)
               ELSE a
  IN After(<<h, s2(s1(h))>>)

add_split_mark(h, self, split_type) ==
  LET s1(a) == IF a[self].split_type # split_type
               THEN IF a[self].split_type = "NO_SPLIT"
                    THEN [a EXCEPT ![self].split_type = split_type]
                    ELSE [a EXCEPT ![self].split_type = "BOTH_SPLIT"]
               ELSE a
      s2(a) == IF a[self].type = "PRIME" THEN mark_children_by_split(a, self, split_type)
               ELSE a
  IN After(<<h, s2(s1(h))>>)

\* a faulty mark_ancestors_by_split: the mark goes to the parent only
mark_parent_by_split(h, self, split_type) ==
  IF ~is_root(h, self)
  THEN add_split_mark(h, h[self].parent, split_type)
  ELSE h

RECURSIVE mark_ancestors_by_split(_, _, _)
mark_ancestors_by_split(h, self, split_type) ==
  IF ~is_root(h, self)
  THEN LET parent == h[self].parent
       IN mark_ancestors_by_split(add_split_mark(h, parent, split_type), parent, split_type)
  ELSE h

is_split_marked(h, self, split_type) ==
  h[self].split_type = "BOTH_SPLIT" \/ h[self].split_type = split_type

clear_split_marks_for_subtree(h, self) ==
  LET sub == Subtree(h, self)
  IN [n \in 1..Len(h) |->
        IF n \in sub THEN [h[n] EXCEPT !.split_type = "NO_SPLIT"] ELSE h[n]]

RECURSIVE promote(_, _, _)
RECURSIVE promote_loop(_, _, _)

promote_loop(h, to_promote, split_type) ==
  IF to_promote = None THEN h
  ELSE LET next_to_promote == h[to_promote].right_sibling
           s1(a) == IF split_type = "LEFT_SPLIT"
                    THEN insert_before(a, to_promote, a[to_promote].parent)
                    ELSE insert_after(a, to_promote, a[to_promote].parent)
           s2(a) == promote(a, to_promote, split_type)
           body(a) == IF a[to_promote].split_type = split_type THEN s2(s1(a)) ELSE a
       IN promote_loop(After(<<h, body(h)>>), next_to_promote, split_type)

promote(h, self, split_type) ==
  LET s1(a) == promote_loop(a, a[self].first_child, split_type)
      s2(a) == IF has_no_children(a, self) /\ a[self].kind # "_TedderMDLeafNode"
               THEN remove(a, self)
               ELSE IF has_only_one_child(a, self)
               THEN replace_with(a, self, a[self].first_child)
               ELSE a
  IN After(<<h, s2(s1(h))>>)

is_degenerate(node_type) == node_type = "PARALLEL" \/ node_type = "SERIES"

RECURSIVE remove_degenerate_duplicates_from_subtree(_, _)
RECURSIVE remove_degenerate_loop(_, _, _)

remove_degenerate_loop(h, self, current_child) ==
  IF current_child = None THEN h
  ELSE LET next_child == h[current_child].right_sibling
           s1(a) == remove_degenerate_duplicates_from_subtree(a, current_child)
           s2(a) == add_children_from(a, self, current_child)
           s3(a) == remove(a, current_child)
           s4(a) == IF a[current_child].type = a[self].type /\ is_degenerate(a[self].type)
                    THEN s3(s2(a)) ELSE a
       IN remove_degenerate_loop(After(<<h, s4(s1(h))>>), self, next_child)

remove_degenerate_duplicates_from_subtree(h, self) ==
  remove_degenerate_loop(h, self, h[self].first_child)

\* a faulty clear_all: the alpha lists of the leaves are kept
clear_all_but_alpha(h, self) ==
  LET sub == Subtree(h, self)
  IN [n \in 1..Len(h) |->
        IF n \in sub
        THEN [h[n] EXCEPT !.comp_number = -1, !.tree_number = -1, !.num_marks = 0,
                          !.split_type = "NO_SPLIT"]
        ELSE h[n]]

\* clear_all of _TedderMDNode, and of _TedderMDLeafNode for the leaves
clear_all(h, self) ==
  LET sub == Subtree(h, self)
  IN [n \in 1..Len(h) |->
        IF n \in sub
        THEN IF h[n].kind = "_TedderMDLeafNode"
             THEN [h[n] EXCEPT !.comp_number = -1, !.tree_number = -1, !.num_marks = 0,
                               !.split_type = "NO_SPLIT", !.alpha = <<>>]
             ELSE [h[n] EXCEPT !.comp_number = -1, !.tree_number = -1, !.num_marks = 0,
                               !.split_type = "NO_SPLIT"]
        ELSE h[n]]

-----------------------------------------------------------------------------
(* _TedderSubProblem: pivoting *)

\* replacement.copy(copy) of _TedderSubProblem
copy_problem(h, self, copy) ==
  [h EXCEPT ![self].connected = h[copy].connected,
            ![self].active = h[copy].active,
            ![self].pivot = h[copy].pivot]

\* a faulty clear_attributes: the pivot is reset, the flags are kept
clear_pivot_only(h, self) == [h EXCEPT ![self].pivot = None]

clear_attributes(h, self) ==
  [h EXCEPT ![self].connected = FALSE, ![self].active = FALSE, ![self].pivot = None]

\* is this subproblem the one holding its parent subproblem's pivot?
is_pivot_layer(h, self) == h[h[self].parent].pivot = h[self].first_child

pull_forward(h, leaf) ==
  LET current_layer == h[leaf].parent IN
  IF current_layer # None /\ h[current_layer].connected THEN h
  ELSE
    LET prev0 == h[current_layer].left_sibling
        new_layer == prev0 # None /\ (h[prev0].active \/ is_pivot_layer(h, prev0))
        \* a new layer is formed, connected through the pivot
        s1(a) == IF new_layer
                 THEN [insert_before(Append(a, _TedderSubProblem), New(h), current_layer)
                         EXCEPT ![New(h)].connected = TRUE]
                 ELSE a
        prev_layer == IF new_layer THEN New(h) ELSE prev0
        s2(a) == IF prev_layer # None /\ a[prev_layer].connected
                 THEN add_child(a, prev_layer, leaf)
                 ELSE a
        s3(a) == IF has_no_children(a, current_layer) THEN remove(a, current_layer) ELSE a
    IN After(<<h, s3(s2(s1(h)))>>)

RECURSIVE process_neighbors_loop(_, _, _, _)
\* "for current_neighbor in piv_neighs_list", from position i on
process_neighbors_loop(h, pivot, neighbor_problem, i) ==
  IF i > Len(h[pivot].neighbors) THEN h
  ELSE LET current_neighbor == h[pivot].neighbors[i]
           h1 == IF h[current_neighbor].visited
                 THEN [h EXCEPT ![current_neighbor].alpha = Append(@, pivot)]
                 ELSE IF h[current_neighbor].parent = h[pivot].parent
                 THEN add_child(h, neighbor_problem, current_neighbor)
                 ELSE pull_forward(h, current_neighbor)
       IN process_neighbors_loop(h1, pivot, neighbor_problem, i + 1)

\* gives the heap and the new subproblem holding the pivot's neighbours
process_neighbors(h, self, pivot) ==
  LET neighbor_problem == New(h)
  IN [h |-> process_neighbors_loop(Append(h, _TedderSubProblem), pivot, neighbor_problem, 1),
      r |-> neighbor_problem]

\* gives the heap and the new current recursive subproblem
pivot_problem(h, self) ==
  LET pivot == h[self].first_child
      s1(a) == [a EXCEPT ![pivot].visited = TRUE]
      s2(a) == remove(a, pivot)
      \* pn: what process_neighbors gave
      after_neighbors(pn) ==
        LET neighbor_problem == pn.r
            \* pivot_problem = _TedderSubProblem(pivot); connected
            new_pivot_problem(a) ==
              LET pivot_prob == New(a)
                  s3(b) == [add_child(Append(b, _TedderSubProblem), pivot_prob, pivot)
                              EXCEPT ![pivot_prob].connected = TRUE]
                  new_replacement(b) ==
                    LET replacement == New(b)
                        s4(c) == copy_problem(Append(c, _TedderSubProblem), replacement, self)
                        s5(c) == [replace_with(c, self, replacement)
                                    EXCEPT ![replacement].pivot = pivot]
                        \* the current subproblem is reused as the non-neighbour partition
                        s6(c) == IF ~has_no_children(c, self)
                                 THEN add_child(clear_attributes(c, self), replacement, self)
                                 ELSE c
                        s7(c) == add_child(c, replacement, pivot_prob)
                        s8(c) == IF ~has_no_children(c, neighbor_problem)
                                 THEN add_child([c EXCEPT ![neighbor_problem].connected = TRUE],
                                                replacement, neighbor_problem)
                                 ELSE c
                    IN [h |-> After(<<b, s8(s7(s6(s5(s4(b)))))>>), r |-> replacement]
              IN new_replacement(s3(a))
        IN new_pivot_problem(s2(pn.h))
  IN after_neighbors(process_neighbors(s1(h), self, pivot))

-----------------------------------------------------------------------------
(* _TedderSubProblem: from the solved layers to the numbered forest *)

RECURSIVE first_unconnected(_, _)
first_unconnected(h, current_sub_problem) ==
  IF current_sub_problem # None /\ h[current_sub_problem].connected
  THEN first_unconnected(h, h[current_sub_problem].right_sibling)
  ELSE current_sub_problem

\* gives the heap and the root of the tree of the other components, or None
remove_extra_components(h, self) ==
  LET current_sub_problem == first_unconnected(h, h[self].first_child)
  IN IF current_sub_problem # None
     THEN LET s1(a) == remove(a, current_sub_problem)
              remove_root(a) == LET root == a[current_sub_problem].first_child
                                IN [h |-> remove(a, root), r |-> root]
          IN remove_root(s1(h))
     ELSE [h |-> h, r |-> None]

RECURSIVE remove_layers_loop(_, _)
remove_layers_loop(h, current_layer) ==
  IF current_layer = None THEN h
  ELSE LET next_layer == h[current_layer].right_sibling
       IN remove_layers_loop(replace_with(h, current_layer, h[current_layer].first_child),
                             next_layer)

remove_layers(h, self) == remove_layers_loop(h, h[self].first_child)

RECURSIVE complete_alpha_inner(_, _, _)
\* "for alpha_node in alpha_list", from position i on; the list is live
complete_alpha_inner(h, leaf, i) ==
  IF i > Len(h[leaf].alpha) THEN h
  ELSE complete_alpha_inner([h EXCEPT ![h[leaf].alpha[i]].alpha = Append(@, leaf)],
                            leaf, i + 1)

RECURSIVE complete_alpha_outer(_, _, _)
complete_alpha_outer(h, leaves_list, k) ==
  IF k > Len(leaves_list) THEN h
  ELSE After(<<h, complete_alpha_outer(complete_alpha_inner(h, leaves_list[k], 1),
                                       leaves_list, k + 1)>>)

RECURSIVE dedup_alpha_scan(_, _, _)
\* the while loop that pops the marked entries of leaf.alpha, from index i on
\* (i counts from 0 as in the source)
dedup_alpha_scan(h, leaf, i) ==
  IF i < Len(h[leaf].alpha)
  THEN LET current_alpha_neighbor == h[leaf].alpha[i + 1]
       IN IF is_marked(h, current_alpha_neighbor)
          THEN dedup_alpha_scan([h EXCEPT ![leaf].alpha = RemoveAt(@, i + 1)], leaf, i)
          ELSE dedup_alpha_scan([h EXCEPT ![current_alpha_neighbor].num_marks = @ + 1],
                                leaf, i + 1)
  ELSE h

RECURSIVE clear_marks_of(_, _, _)
\* "for x in list: x.clear_marks()", from position i on
clear_marks_of(h, list, i) ==
  IF i > Len(list) THEN h
  ELSE After(<<h, clear_marks_of(clear_marks(h, list[i]), list, i + 1)>>)

RECURSIVE dedup_alpha_outer(_, _, _)
dedup_alpha_outer(h, leaves_list, k) ==
  IF k > Len(leaves_list) THEN h
  ELSE LET s1(a) == dedup_alpha_scan(a, leaves_list[k], 0)
           s2(a) == clear_marks_of(a, a[leaves_list[k]].alpha, 1)
       IN After(<<h, dedup_alpha_outer(s2(s1(h)), leaves_list, k + 1)>>)

\* a faulty complete_alpha_lists: the duplicate entries are not removed
complete_alpha_lists_with_duplicates(h, self) ==
  complete_alpha_outer(h, get_leaves(h, self), 1)

complete_alpha_lists(h, self) ==
  LET leaves_list == get_leaves(h, self)
  IN dedup_alpha_outer(complete_alpha_outer(h, leaves_list, 1), leaves_list, 1)

RECURSIVE number_by_comp_loop(_, _, _, _, _)
number_by_comp_loop(h, self, current_root, comp_number, after_pivot) ==
  IF current_root = None THEN h
  ELSE LET after == after_pivot \/ current_root = h[self].pivot
           next(res) == number_by_comp_loop(res.h, self, h[current_root].right_sibling,
                                            comp_number + res.r, after)
       IN next(IF after
               THEN number_comps(h, current_root, comp_number, "PARALLEL")
               ELSE number_comps(h, current_root, comp_number, "SERIES"))

number_by_comp(h, self) ==
  number_by_comp_loop(h, self, h[self].first_child, 0, FALSE)

RECURSIVE number_by_tree_loop(_, _, _)
number_by_tree_loop(h, current_root, tree_number) ==
  IF current_root = None THEN h
  ELSE number_by_tree_loop(set_tree_number_for_subtree(h, current_root, tree_number),
                           h[current_root].right_sibling, tree_number + 1)

number_by_tree(h, self) == number_by_tree_loop(h, h[self].first_child, 0)

-----------------------------------------------------------------------------
(* _TedderSubProblem: refinement and promotion *)

RECURSIVE max_subtrees_mark(_, _, _, _)
\* the marking loops of get_max_subtrees; i counts from 0 as in the source
max_subtrees_mark(h, active, discharged, i) ==
  IF active = <<>> THEN [h |-> h, r |-> discharged]
  ELSE IF i < Len(active)
  THEN LET current == active[i + 1]
           popped == RemoveAt(active, i + 1)
       IN IF ~is_root(h, current)
          THEN LET current_parent == h[current].parent
                   h1 == [h EXCEPT ![current_parent].num_marks = @ + 1]
               IN IF is_fully_marked(h1, current_parent)
                  THEN max_subtrees_mark(h1, InsertAt(popped, i + 1, current_parent),
                                         Append(discharged, current), i + 1)
                  ELSE max_subtrees_mark(h1, popped, Append(discharged, current), i)
          ELSE max_subtrees_mark(h, popped, Append(discharged, current), i)
  ELSE max_subtrees_mark(h, active, discharged, 0)

RECURSIVE max_subtrees_clear(_, _, _)
\* the loop that removes the marks and keeps the roots of maximal subtrees
max_subtrees_clear(h, discharged, i) ==
  IF i < Len(discharged)
  THEN LET current == discharged[i + 1]
           h1 == clear_marks(h, current)
       IN IF ~is_root(h1, current)
          THEN LET current_parent == h1[current].parent
               IN IF is_fully_marked(h1, current_parent)
                  THEN max_subtrees_clear(h1, RemoveAt(discharged, i + 1), i)
                  ELSE max_subtrees_clear(clear_marks(h1, current_parent), discharged, i + 1)
          ELSE max_subtrees_clear(h1, discharged, i + 1)
  ELSE [h |-> h, r |-> discharged]

\* a faulty get_max_subtrees: the marking loops only, the discharged
\* nodes are all returned and the marks stay
get_discharged_subtrees(h, self, leaves) ==
  max_subtrees_mark(h, leaves, <<>>, 0)

\* gives the heap and the list of the roots of the maximal subtrees
get_max_subtrees(h, self, leaves) ==
  LET clear(marked) == max_subtrees_clear(marked.h, marked.r, 0)
  IN clear(max_subtrees_mark(h, leaves, <<>>, 0))

RECURSIVE group_mark(_, _, _, _)
\* first loop of group_sibling_nodes; gives the heap and the list parents
group_mark(h, nodes, k, parents) ==
  IF k > Len(nodes) THEN [h |-> h, r |-> parents]
  ELSE LET node == nodes[k]
           h1 == [h EXCEPT ![node].num_marks = @ + 1]
       IN IF ~is_root(h1, node)
          THEN LET mark_parent(a) ==
                     LET current_parent == a[node].parent
                     IN group_mark([a EXCEPT ![current_parent].num_marks = @ + 1],
                                   nodes, k + 1,
                                   IF ~is_marked(a, current_parent)
                                   THEN Append(parents, current_parent) ELSE parents)
               IN mark_parent(make_first_child(h1, node))
          ELSE group_mark(h1, nodes, k + 1, parents)

RECURSIVE group_roots(_, _, _, _)
\* the roots of trees are sibling groups of their own
group_roots(h, nodes, k, sibling_groups) ==
  IF k > Len(nodes) THEN [h |-> h, r |-> sibling_groups]
  ELSE IF is_root(h, nodes[k])
  THEN group_roots(clear_marks(h, nodes[k]), nodes, k + 1, Append(sibling_groups, nodes[k]))
  ELSE group_roots(h, nodes, k + 1, sibling_groups)

RECURSIVE group_singles(_, _, _, _)
\* the non-root nodes without siblings; gives heap, parents left, groups
group_singles(h, parents, i, sibling_groups) ==
  IF i < Len(parents)
  THEN LET current == parents[i + 1]
       IN IF h[current].num_marks = 1
          THEN LET h1 == clear_marks(h, current)
                   h2 == clear_marks(h1, h1[current].first_child)
               IN group_singles(h2, RemoveAt(parents, i + 1), i,
                                Append(sibling_groups, h2[current].first_child))
          ELSE group_singles(h, parents, i + 1, sibling_groups)
  ELSE [h |-> h, parents |-> parents, r |-> sibling_groups]

RECURSIVE group_move_marked(_, _, _)
\* "while current_child is not None and current_child.is_marked()"
group_move_marked(h, grouped_children, current_child) ==
  IF current_child # None /\ is_marked(h, current_child)
  THEN LET next_child == h[current_child].right_sibling
       IN group_move_marked(add_child(clear_marks(h, current_child),
                                      grouped_children, current_child),
                            grouped_children, next_child)
  ELSE h

RECURSIVE group_siblings(_, _, _, _)
\* sibling nodes become the children of a new node inserted in their place
group_siblings(h, parents, k, sibling_groups) ==
  IF k > Len(parents) THEN [h |-> h, r |-> sibling_groups]
  ELSE LET current_parent == parents[k]
           s1(a) == clear_marks(a, current_parent)
           grouped_children == New(h)
           s2(a) == copy_md(Append(a, _TedderMDNode("PRIME")), grouped_children, current_parent)
           s3(a) == group_move_marked(a, grouped_children, a[current_parent].first_child)
           s4(a) == add_child(a, current_parent, grouped_children)
       IN After(<<h, sibling_groups,
                  group_siblings(s4(s3(s2(s1(h)))), parents, k + 1,
                                 Append(sibling_groups, grouped_children))>>)

\* gives the heap and the list sibling_groups
group_sibling_nodes(h, self, nodes) ==
  LET siblings(singles) == group_siblings(singles.h, singles.parents, 1, singles.r)
      singletons(marked) ==
        LET of_roots(roots) == group_singles(roots.h, marked.r, 0, roots.r)
        IN of_roots(group_roots(marked.h, nodes, 1, <<>>))
  IN siblings(singletons(group_mark(h, nodes, 1, <<>>)))

RECURSIVE without_roots(_, _, _)
\* "if sibling_groups[i].is_root(): sibling_groups.pop(i)"
without_roots(h, sibling_groups, i) ==
  IF i < Len(sibling_groups)
  THEN IF is_root(h, sibling_groups[i + 1])
       THEN without_roots(h, RemoveAt(sibling_groups, i + 1), i)
       ELSE without_roots(h, sibling_groups, i + 1)
  ELSE sibling_groups

\* the body of "for current in sibling_groups" of refine_with
refine_split(h, self, refiner, current) ==
  LET pivot_tree_number == h[h[self].pivot].tree_number
      refiner_tree_number == h[refiner].tree_number
      current_tree_number == h[current].tree_number
      split_type == IF current_tree_number < pivot_tree_number
                       \/ refiner_tree_number < current_tree_number
                    THEN "LEFT_SPLIT" ELSE "RIGHT_SPLIT"
      current_parent == h[current].parent
      \* the parent is a root: split the tree
      t1(a) == IF split_type = "LEFT_SPLIT"
               THEN insert_before(a, current, current_parent)
               ELSE insert_after(a, current, current_parent)
      t2(a) == IF has_only_one_child(a, current_parent)
               THEN replace_this_by_its_children(a, current_parent) ELSE a
      t3(a) == IF has_no_children(a, current_parent)
               THEN remove(a, current_parent) ELSE a
      \* the parent is not a root: split the node
      n1(a) == remove(a, current)
      n2(a) ==
        IF has_only_one_child(a, current_parent)
        THEN [h |-> add_child(a, current_parent, current),
              new_sibling |-> a[current_parent].first_child]
        ELSE LET replacement == New(a)
                 n3(b) == copy_md(Append(b, _TedderMDNode("PRIME")),
                                  replacement, current_parent)
                 n4(b) == replace_with(b, current_parent, replacement)
                 n5(b) == add_child(b, replacement, current)
                 n6(b) == add_child(b, replacement, current_parent)
             IN [h |-> n6(n5(n4(n3(a)))), new_sibling |-> current_parent]
      marks(split) ==
        LET m1(a) == add_split_mark(a, current, split_type)
            m2(a) == add_split_mark(a, split.new_sibling, split_type)
            m3(a) == mark_ancestors_by_split(a, current, split_type)
            m4(a) == mark_ancestors_by_split(a, split.new_sibling, split_type)
        IN m4(m3(m2(m1(split.h))))
  IN After(<<h, marks(IF is_root(h, current_parent)
                      THEN [h |-> t3(t2(t1(h))), new_sibling |-> current_parent]
                      ELSE n2(n1(h)))>>)

RECURSIVE refine_loop(_, _, _, _, _)
refine_loop(h, self, refiner, sibling_groups, k) ==
  IF k > Len(sibling_groups) THEN h
  ELSE After(<<h, refine_loop(refine_split(h, self, refiner, sibling_groups[k]),
                              self, refiner, sibling_groups, k + 1)>>)

refine_with(h, self, refiner) ==
  LET group(sub_tree_roots) == group_sibling_nodes(sub_tree_roots.h, self, sub_tree_roots.r)
      split(grouped) ==
        refine_loop(grouped.h, self, refiner, without_roots(grouped.h, grouped.r, 0), 1)
  IN After(<<h, split(group(get_max_subtrees(h, self, h[refiner].alpha)))>>)

RECURSIVE refinement_loop(_, _, _, _)
refinement_loop(h, self, leaf_list, k) ==
  IF k > Len(leaf_list) THEN h
  ELSE After(<<h, refinement_loop(refine_with(h, self, leaf_list[k]),
                                  self, leaf_list, k + 1)>>)

refinement(h, self) == refinement_loop(h, self, get_leaves(h, self), 1)

RECURSIVE promote_one_direction_loop(_, _, _)
promote_one_direction_loop(h, current, split_type) ==
  IF current = None THEN h
  ELSE LET next_node == h[current].right_sibling
       IN promote_one_direction_loop(promote(h, current, split_type), next_node, split_type)

promote_one_direction(h, self, split_type) ==
  promote_one_direction_loop(h, h[self].first_child, split_type)

RECURSIVE clear_split_marks_loop(_, _)
clear_split_marks_loop(h, current) ==
  IF current = None THEN h
  ELSE LET next_node == h[current].right_sibling
       IN clear_split_marks_loop(clear_split_marks_for_subtree(h, current), next_node)

clear_split_marks(h, self) == clear_split_marks_loop(h, h[self].first_child)

promotion(h, self) ==
  LET s1(a) == promote_one_direction(a, self, "LEFT_SPLIT")
      s2(a) == promote_one_direction(a, self, "RIGHT_SPLIT")
      s3(a) == clear_split_marks(a, self)
  IN After(<<h, s3(s2(s1(h)))>>)

-----------------------------------------------------------------------------
(* _TedderSubProblem: delineation of the strong modules holding the pivot *)

RECURSIVE build_permutation_loop(_, _, _)
build_permutation_loop(h, current, num_fact_perm_elements) ==
  IF current = None THEN h
  ELSE LET next_node == h[current].right_sibling
           new_element == New(h)
           s1(a) == insert_before(Append(a, _TedderFactPermElement(num_fact_perm_elements)),
                                  new_element, current)
           s2(a) == add_child(a, new_element, current)
       IN build_permutation_loop(After(<<h, s2(s1(h))>>), next_node,
                                 num_fact_perm_elements + 1)

build_permutation(h, self) == build_permutation_loop(h, h[self].first_child, 0)

RECURSIVE left_co_comp_loop(_, _, _, _)
left_co_comp_loop(h, self, current, last_comp_num) ==
  IF h[current].first_child # h[self].pivot
  THEN LET current_comp_num == h[h[current].first_child].comp_number
           h1 == IF last_comp_num # -1 /\ last_comp_num = current_comp_num
                 THEN [h EXCEPT ![current].has_left_co_comp_fragment = TRUE] ELSE h
       IN left_co_comp_loop(h1, self, h[current].right_sibling, current_comp_num)
  ELSE h

determine_left_co_comp_fragments(h, self) ==
  left_co_comp_loop(h, self, h[self].first_child, -1)

RECURSIVE right_comp_loop(_, _, _, _)
right_comp_loop(h, current, last, last_comp_num) ==
  IF current # None
  THEN LET current_comp_num == h[h[current].first_child].comp_number
           h1 == IF last_comp_num # -1 /\ last_comp_num = current_comp_num
                 THEN [h EXCEPT ![last].has_right_comp_fragment = TRUE] ELSE h
       IN right_comp_loop(h1, h[current].right_sibling, current, current_comp_num)
  ELSE h

determine_right_comp_fragments(h, self) ==
  right_comp_loop(h, h[h[h[self].pivot].parent].right_sibling, None, -1)

\* does some leaf of the tree have an active edge to a tree numbered higher?
reaches_right_layer(h, current_tree) ==
  \E leaf \in Range(get_leaves(h, current_tree)) :
    \E alpha \in Range(h[leaf].alpha) :
      h[alpha].tree_number > h[current_tree].tree_number

RECURSIVE right_layer_loop(_, _)
right_layer_loop(h, current) ==
  IF current = None THEN h
  ELSE LET h1 == IF reaches_right_layer(h, h[current].first_child)
                 THEN [h EXCEPT ![current].has_right_layer_neighbor = TRUE] ELSE h
       IN right_layer_loop(h1, h[current].right_sibling)

determine_right_layer_neighbor(h, self) ==
  right_layer_loop(h, h[h[h[self].pivot].parent].right_sibling)

\* the factorizing permutation elements, in order
build_fact_perm_list(h, self) == Children(h, self)

\* list[i] of Python, where a negative i counts from the end of the list
PyIndex(list, i) == IF i >= 0 THEN list[i + 1] ELSE list[Len(list) + i + 1]

RECURSIVE set_comp_of_leaves(_, _, _, _)
\* "for leaf in leaves_list: leaf.comp_number = current_element.index"
set_comp_of_leaves(h, leaves_list, k, index) ==
  IF k > Len(leaves_list) THEN h
  ELSE After(<<h, set_comp_of_leaves([h EXCEPT ![leaves_list[k]].comp_number = index],
                                     leaves_list, k + 1, index)>>)

RECURSIVE number_by_element(_, _)
number_by_element(h, current_element) ==
  IF current_element = None THEN h
  ELSE number_by_element(set_comp_of_leaves(h, get_leaves(h, current_element), 1,
                                            h[current_element].index),
                         h[current_element].right_sibling)

\* the elements joined to current_element by the active edges of its leaves,
\* one entry for every such edge
edge_neighbors(h, fact_perm_list, current_element) ==
  FlattenSeq([k \in 1..Len(get_leaves(h, current_element)) |->
    LET alpha_list == h[get_leaves(h, current_element)[k]].alpha
    IN [j \in 1..Len(alpha_list) |->
          PyIndex(fact_perm_list, h[alpha_list[j]].comp_number)]])

RECURSIVE add_edge_neighbors(_, _, _)
add_edge_neighbors(h, fact_perm_list, current_element) ==
  IF current_element = None THEN h
  ELSE add_edge_neighbors(
         [h EXCEPT ![current_element].neighbors =
                      @ \o edge_neighbors(h, fact_perm_list, current_element)],
         fact_perm_list, h[current_element].right_sibling)

RECURSIVE count_edges(_, _, _)
\* counts the edges to every neighbour and removes the duplicates
count_edges(h, current_element, i) ==
  IF i < Len(h[current_element].neighbors)
  THEN LET current_neighbor == h[current_element].neighbors[i + 1]
           marked == is_marked(h, current_neighbor)
           h1 == IF marked
                 THEN [h EXCEPT ![current_element].neighbors = RemoveAt(@, i + 1)] ELSE h
       IN count_edges([h1 EXCEPT ![current_neighbor].num_marks = @ + 1],
                      current_element, IF marked THEN i ELSE i + 1)
  ELSE h

RECURSIVE keep_joins(_, _, _, _, _, _)
\* "for neighbor in neighbors_list"; gives the heap and new_neighbors
keep_joins(h, element_sizes, current_element, neighbors_list, k, new_neighbors) ==
  IF k > Len(neighbors_list) THEN [h |-> h, r |-> new_neighbors]
  ELSE LET neighbor == neighbors_list[k]
           my_size == PyIndex(element_sizes, h[current_element].index)
           neighbor_size == PyIndex(element_sizes, h[neighbor].index)
           join == my_size * neighbor_size = h[neighbor].num_marks
       IN After(<<h, new_neighbors,
                  keep_joins(clear_marks(h, neighbor), element_sizes, current_element,
                             neighbors_list, k + 1,
                             IF join THEN Append(new_neighbors, neighbor)
                             ELSE new_neighbors)>>)

replace_neighbors(h, self, new_neighbors) == [h EXCEPT ![self].neighbors = new_neighbors]

RECURSIVE replace_by_joins(_, _, _)
replace_by_joins(h, element_sizes, current_element) ==
  IF current_element = None THEN h
  ELSE LET s1(a) == count_edges(a, current_element, 0)
           s2(a) == keep_joins(a, element_sizes, current_element,
                               a[current_element].neighbors, 1, <<>>)
           s3(kept) == replace_neighbors(kept.h, current_element, kept.r)
       IN replace_by_joins(s3(s2(s1(h))),
                           element_sizes, h[current_element].right_sibling)

compute_fact_perm_edges(h, self) ==
  LET s1(a) == number_by_element(a, a[self].first_child)
      edges(a) ==
        LET fact_perm_list == build_fact_perm_list(a, self)
            element_sizes == [k \in 1..Len(fact_perm_list) |->
                                Len(get_leaves(a, fact_perm_list[k]))]
            s2(b) == add_edge_neighbors(b, fact_perm_list, b[self].first_child)
            s3(b) == replace_by_joins(b, element_sizes, b[self].first_child)
        IN s3(s2(a))
  IN After(<<h, edges(s1(h))>>)

RECURSIVE init_mu(_, _, _)
init_mu(h, current, first_element) ==
  IF current = None THEN h
  ELSE init_mu([h EXCEPT ![current].mu = first_element],
               h[current].right_sibling, first_element)

RECURSIVE mu_of_neighbors(_, _, _, _, _)
\* "for neighbor in neighbor_list" of compute_mu
mu_of_neighbors(h, current, next_element, neighbor_list, k) ==
  IF k > Len(neighbor_list) THEN h
  ELSE LET neighbor == neighbor_list[k]
           s1(a) == IF a[a[neighbor].mu].index = a[current].index
                    THEN [a EXCEPT ![neighbor].mu = next_element] ELSE a
           s2(a) == IF a[neighbor].index > a[a[current].mu].index
                    THEN [a EXCEPT ![current].mu = neighbor] ELSE a
       IN After(<<h, mu_of_neighbors(s2(s1(h)), current, next_element,
                                     neighbor_list, k + 1)>>)

RECURSIVE mu_loop(_, _, _)
mu_loop(h, current, pivot_element) ==
  IF current # pivot_element
  THEN LET next_element == h[current].right_sibling
       IN mu_loop(mu_of_neighbors(h, current, next_element, h[current].neighbors, 1),
                  next_element, pivot_element)
  ELSE h

compute_mu(h, self) ==
  LET first_element == h[self].first_child
      pivot_element == h[h[self].pivot].parent
  IN mu_loop(init_mu(h, first_element, first_element), first_element, pivot_element)

RECURSIVE series_scan(_, _, _)
\* "while left is not None and left.mu.index <= right_last_in.index and not
\* left.has_left_co_comp_fragment"; d holds the local variables of delineate
series_scan(h, d, formed) ==
  IF /\ d.left # None
     /\ h[h[d.left].mu].index <= h[d.right_last_in].index
     /\ ~h[d.left].has_left_co_comp_fragment
  THEN series_scan(h, [d EXCEPT !.left_last_in = d.left,
                                !.left = h[d.left].left_sibling], TRUE)
  ELSE [d |-> d, formed |-> formed]

RECURSIVE parallel_scan(_, _, _, _)
parallel_scan(h, d, series_module_formed, formed) ==
  IF /\ ~series_module_formed
     /\ d.right # None
     /\ h[h[d.right].mu].index >= h[d.left_last_in].index
     /\ ~h[d.right].has_right_comp_fragment
     /\ ~h[d.right].has_right_layer_neighbor
  THEN parallel_scan(h, [d EXCEPT !.right_last_in = d.right,
                                  !.right = h[d.right].right_sibling],
                     series_module_formed, TRUE)
  ELSE [d |-> d, formed |-> formed]

RECURSIVE take_left(_, _)
\* the "while True" loops that move left; "left.left_sibling" raises
\* AttributeError when left is None
take_left(h, d) ==
  IF d.left = None THEN [d EXCEPT !.raised = TRUE]
  ELSE LET d1 == [d EXCEPT !.left_queue = Append(@, d.left),
                           !.left_last_in = d.left,
                           !.left = h[d.left].left_sibling]
       IN IF ~h[d1.left_last_in].has_left_co_comp_fragment THEN d1 ELSE take_left(h, d1)

RECURSIVE take_right(_, _)
\* the "while True" loop that moves right; "right.right_sibling" raises
\* AttributeError when right is None
take_right(h, d) ==
  IF d.right = None THEN [d EXCEPT !.raised = TRUE]
  ELSE LET d1 == [d EXCEPT !.right_queue = Append(@, d.right),
                           !.right_last_in = d.right,
                           !.right = h[d.right].right_sibling,
                           !.has_right_edge = @ \/ h[d.right].has_right_layer_neighbor]
       IN IF ~h[d1.right_last_in].has_right_comp_fragment THEN d1 ELSE take_right(h, d1)

RECURSIVE force_from_left(_, _, _)
\* "while current_left.mu.index > right_last_in.index"
force_from_left(h, d, current_left) ==
  IF ~d.raised /\ h[h[current_left].mu].index > h[d.right_last_in].index
  THEN force_from_left(h, take_right(h, d), current_left)
  ELSE d

RECURSIVE force_from_right(_, _, _)
\* "while current_right.mu.index < left_last_in.index"
force_from_right(h, d, current_right) ==
  IF ~d.raised /\ h[h[current_right].mu].index < h[d.left_last_in].index
  THEN force_from_right(h, take_left(h, d), current_right)
  ELSE d

RECURSIVE drain_left_queue(_, _)
drain_left_queue(h, d) ==
  IF ~d.raised /\ Len(d.left_queue) # 0
  THEN drain_left_queue(h, force_from_left(h, [d EXCEPT !.left_queue = Tail(@)],
                                           Head(d.left_queue)))
  ELSE d

RECURSIVE drain_right_queue(_, _)
drain_right_queue(h, d) ==
  IF ~d.raised /\ Len(d.right_queue) # 0
  THEN drain_right_queue(h, force_from_right(h, [d EXCEPT !.right_queue = Tail(@)],
                                             Head(d.right_queue)))
  ELSE d

RECURSIVE forcing(_, _)
\* "while len(left_queue) != 0 or len(right_queue) != 0"
forcing(h, d) ==
  IF ~d.raised /\ (Len(d.left_queue) # 0 \/ Len(d.right_queue) # 0)
  THEN forcing(h, drain_right_queue(h, drain_left_queue(h, d)))
  ELSE d

RECURSIVE delineate_loop(_, _, _, _)
\* "while left is not None or right is not None"; gives the heap and whether
\* the call raised
delineate_loop(h, d, first_element, last_element) ==
  IF d.left = None /\ d.right = None THEN [h |-> h, raised |-> FALSE]
  ELSE LET s == series_scan(h, d, FALSE)
           p == parallel_scan(h, s.d, s.formed, FALSE)
           d0 == [p.d EXCEPT !.left_queue = <<>>, !.right_queue = <<>>,
                             !.has_right_edge = FALSE]
           d1 == IF ~s.formed /\ ~p.formed THEN take_left(h, d0) ELSE d0
           \* the module is delineated by two boundary elements
           bounded(d3) ==
             LET left_boundary == New(h)
                 right_boundary == New(h) + 1
                 s1(a) == Append(Append(a, _TedderFactPermElement(-1)),
                                 _TedderFactPermElement(-1))
                 s2(a) == insert_before(a, left_boundary, d3.left_last_in)
                 s3(a) == insert_after(a, right_boundary, d3.right_last_in)
             IN After(<<d3, delineate_loop(s3(s2(s1(h))), d3, first_element,
                                           last_element)>>)
           forced(d2) ==
             IF d2.raised THEN [h |-> h, raised |-> TRUE]
             ELSE bounded(IF d2.has_right_edge
                          THEN [d2 EXCEPT !.left_last_in = first_element,
                                          !.right_last_in = last_element,
                                          !.left = None, !.right = None]
                          ELSE d2)
       IN After(<<h, forced(forcing(h, d1))>>)

RECURSIVE last_sibling(_, _)
last_sibling(h, last_element) ==
  IF h[last_element].right_sibling # None
  THEN last_sibling(h, h[last_element].right_sibling) ELSE last_element

delineate(h, self) ==
  LET pivot_element == h[h[self].pivot].parent
  IN delineate_loop(h, [left |-> h[pivot_element].left_sibling,
                        right |-> h[pivot_element].right_sibling,
                        left_last_in |-> pivot_element,
                        right_last_in |-> pivot_element,
                        left_queue |-> <<>>, right_queue |-> <<>>,
                        has_right_edge |-> FALSE, raised |-> FALSE],
                    h[self].first_child, last_sibling(h, pivot_element))

\* gives the heap and whether delineate raised
delineation(h, self) ==
  LET s1(a) == build_permutation(a, self)
      s2(a) == determine_left_co_comp_fragments(a, self)
      s3(a) == determine_right_comp_fragments(a, self)
      s4(a) == determine_right_layer_neighbor(a, self)
      s5(a) == compute_fact_perm_edges(a, self)
      s6(a) == compute_mu(a, self)
      s7(a) == delineate(a, self)
  IN After(<<h, s7(s6(s5(s4(s3(s2(s1(h)))))))>>)

-----------------------------------------------------------------------------
(* _TedderSubProblem: assembly of the tree *)

RECURSIVE gather_left(_, _, _, _)
\* "while left.index != -1"; "left.index" raises AttributeError on None
gather_left(h, new_module, left, added) ==
  IF left = None THEN [h |-> h, at |-> left, added |-> added, raised |-> TRUE]
  ELSE IF h[left].index # -1
  THEN LET s1(a) == add_children_from(a, new_module, left)
           \* "left = left.left_sibling" comes before "previous.remove()"
           s2(a) == gather_left(remove(a, left), new_module, a[left].left_sibling, TRUE)
       IN After(<<h, s2(s1(h))>>)
  ELSE [h |-> h, at |-> left, added |-> added, raised |-> FALSE]

RECURSIVE gather_right(_, _, _, _)
\* "while right.index != -1"; "right.index" raises AttributeError on None
gather_right(h, new_module, right, added) ==
  IF right = None THEN [h |-> h, at |-> right, added |-> added, raised |-> TRUE]
  ELSE IF h[right].index # -1
  THEN LET s1(a) == add_children_from(a, new_module, right)
           \* "right = right.right_sibling" comes before "previous.remove()"
           s2(a) == gather_right(remove(a, right), new_module, a[right].right_sibling, TRUE)
       IN After(<<h, s2(s1(h))>>)
  ELSE [h |-> h, at |-> right, added |-> added, raised |-> FALSE]

RECURSIVE assemble_loop(_, _, _, _, _)
\* creates the spine one module at a time
assemble_loop(h, self, left, right, last_module) ==
  IF left = None /\ right = None
  THEN [h |-> replace_children_with(h, self, last_module), raised |-> FALSE]
  ELSE LET new_module == New(h)
           h1 == add_child(Append(h, _TedderMDNode("PRIME")), new_module, last_module)
           l == gather_left(h1, new_module, left, FALSE)
           r == gather_right(l.h, new_module, right, FALSE)
           new_type == IF l.added /\ r.added THEN "PRIME"
                       ELSE IF l.added THEN "SERIES" ELSE "PARALLEL"
           h2 == [r.h EXCEPT ![new_module].type = new_type]
       IN IF l.raised THEN [h |-> l.h, raised |-> TRUE]
          ELSE IF r.raised THEN [h |-> r.h, raised |-> TRUE]
          ELSE assemble_loop(After(<<h, h1, l.h, r.h, h2>>), self,
                             h2[l.at].left_sibling, h2[r.at].right_sibling, new_module)

\* gives the heap and whether the call raised
assemble_tree(h, self) ==
  LET pivot_element == h[h[self].pivot].parent
  IN assemble_loop(h, self, h[pivot_element].left_sibling,
                   h[pivot_element].right_sibling, h[self].pivot)

\* a faulty clean-up: the assembled tree is left as it is
keep_degenerate_duplicates(h, self) == h

remove_degenerate_duplicates(h, self) ==
  remove_degenerate_duplicates_from_subtree(h, h[self].first_child)

\* a faulty merge: a new PARALLEL root is made whatever the two roots are
merge_under_new_root(h, self, new_components) ==
  IF new_components = None THEN h
  ELSE LET new_root == New(h)
           h1 == add_child(Append(h, _TedderMDNode("PARALLEL")), new_root,
                           h[self].first_child)
           h2 == add_child(h1, new_root, new_components)
           h3 == add_child(h2, self, new_root)
       IN After(<<h, h1, h2, h3>>)

merge_components(h, self, new_components) ==
  LET first_component == h[self].first_child IN
  IF new_components = None THEN h
  ELSE IF h[new_components].type = "PARALLEL"
  THEN LET h1 == IF h[first_component].type = "PARALLEL"
                 THEN add_children_from(h, new_components, first_component)
                 ELSE add_child(h, new_components, first_component)
       IN add_child(h1, self, new_components)
  ELSE LET new_root == New(h)
           h1 == add_child(Append(h, _TedderMDNode("PARALLEL")), new_root, first_component)
           h2 == add_child(h1, new_root, new_components)
           h3 == add_child(h2, self, new_root)
       IN After(<<h, h1, h2, h3>>)

clear_all_but_visited(h, self) == clear_all(h, h[self].first_child)

-----------------------------------------------------------------------------
(* tedder_algorithm: preprocessing and postprocessing *)

\* position of x in the sequence s
IndexOf(s, x) == CHOOSE i \in 1..Len(s) : s[i] = x

\* vertex_dictionary: the leaf of the i-th vertex of graph.vertices() is node i
vertex_dictionary(graph, vertex) == IndexOf(SetToSortedSeq(graph.V), vertex)

\* the leaves with their neighbour lists, before they are given a parent
tedder_leaves(graph) ==
  LET vertex_list == SetToSortedSeq(graph.V)
  IN [i \in 1..Len(vertex_list) |->
        LET neighbor_list == SetToSortedSeq(neighbors(graph, vertex_list[i]))
        IN [_TedderMDLeafNode(vertex_list[i]) EXCEPT
              !.neighbors = [j \in 1..Len(neighbor_list) |->
                               vertex_dictionary(graph, neighbor_list[j])]]]

RECURSIVE add_leaves(_, _)
\* "main_problem.add_child(node)" for every vertex from the i-th on;
\* main_problem is the last node of h, the leaves are the nodes before it
add_leaves(h, i) ==
  IF i >= Len(h) THEN h ELSE add_leaves(add_child(h, Len(h), i), i + 1)

\* the heap on which main_problem.solve(1) is called
tedder_preprocess(graph) ==
  add_leaves(Append(tedder_leaves(graph), _TedderSubProblem), 1)

RECURSIVE _recursive_tedder_to_md(_, _)
_recursive_tedder_to_md(h, root) ==
  IF h[root].kind = "_TedderMDLeafNode" THEN create_normal_node(h[root].vertex)
  ELSE LET cs == Children(h, root)
       IN [Node(h[root].type) EXCEPT
             !.children = [i \in 1..Len(cs) |-> _recursive_tedder_to_md(h, cs[i])]]

-----------------------------------------------------------------------------
(* Input graphs *)

\* Graph(edges) on the vertices lo..hi
GraphOf(lo, hi, edges) ==
  [V |-> lo..hi, E |-> {{e[1], e[2]} : e \in edges}, directed |-> FALSE]

\* graphs.OctahedralGraph(): i is not adjacent to 5 - i only
OctahedralGraph ==
  [V |-> 0..5, E |-> {e \in Pairs(0..5) : \E i \in e : (5 - i) \notin e},
   directed |-> FALSE]

\* graphs.CompleteGraph(n) and its complement, on the vertices 1..n
CompleteGraph(n) == [V |-> 1..n, E |-> Pairs(1..n), directed |-> FALSE]

EmptyGraph(n) == [V |-> 1..n, E |-> {}, directed |-> FALSE]

\* a prime graph on seven vertices
PrimeGraph7 ==
  GraphOf(1, 7, {<<1, 3>>, <<1, 4>>, <<1, 6>>, <<1, 7>>,
                 <<2, 3>>, <<2, 7>>, <<3, 4>>, <<3, 5>>})

\* a tree on eight vertices with one more edge
SparseGraph8 ==
  GraphOf(1, 8, {<<1, 2>>, <<1, 6>>, <<2, 4>>, <<2, 8>>, <<3, 6>>,
                 <<3, 7>>, <<3, 8>>, <<4, 7>>, <<5, 7>>})

\* a graph on six vertices: the neighbours 2, 4, 5, 6 of the first pivot
\* induce a path 4 - 6 - 2 - 5, a prime tree that vertex 3 refines
PrimePathGraph6 ==
  GraphOf(1, 6, {<<1, 2>>, <<1, 4>>, <<1, 5>>, <<1, 6>>, <<2, 3>>,
                 <<2, 5>>, <<2, 6>>, <<3, 6>>, <<4, 6>>})

\* a graph on six vertices: vertex 6 is joined to all others, 1, 2, 3 are a
\* triangle, 4 and 5 have no other neighbour; the forest of the first
\* pivot holds a PARALLEL tree with a SERIES child of three leaves
NestedSeriesGraph6 ==
  GraphOf(1, 6, {<<1, 2>>, <<1, 3>>, <<1, 6>>, <<2, 3>>, <<2, 6>>, <<3, 6>>,
                 <<4, 6>>, <<5, 6>>})

\* the graphs of more than MaxN vertices that are inputs
LargeGraphs ==
  {OctahedralGraph, CompleteGraph(MaxN + 1), EmptyGraph(MaxN + 1), PrimeGraph7, SparseGraph8,
   PrimePathGraph6, NestedSeriesGraph6}

UndirectedGraphs == UNION {GraphsOn(1..n) : n \in 0..MaxN} \cup LargeGraphs

\* Largest order of the directed inputs.
MaxDirN == 2

DirectedGraphs == UNION {DiGraphsOn(1..n) : n \in 0..MaxDirN}

\* the permutations of the vertex set V, as dictionaries
VertexPermutations(V) == {f \in [V -> V] : {f[v] : v \in V} = V}

\* v -> lo + hi - v and v -> v + 1 (hi -> lo) on the vertices lo..hi
Reversal(V) == [v \in V |-> Min(V) + Cardinality(V) - 1 + Min(V) - v]

Rotation(V) == [v \in V |-> IF v = Min(V) + Cardinality(V) - 1 THEN Min(V) ELSE v + 1]

\* the relabelings tried on a graph: all of them up to MaxN vertices
Relabelings(g) ==
  IF order(g) <= MaxN THEN VertexPermutations(g.V) ELSE {Reversal(g.V), Rotation(g.V)}

-----------------------------------------------------------------------------
(* Testing a modular decomposition tree *)

\* whether v is adjacent to all or to none of the vertices of the module
either_connected_or_not_connected(v, vertices_in_module, g) ==
  LET connected == has_edge(g, vertices_in_module[1], v)
  IN \A k \in 1..Len(vertices_in_module) :
       has_edge(g, vertices_in_module[k], v) = connected

children_node_type(module, node_type) ==
  \A i \in 1..Len(module.children) : module.children[i].node_type = node_type

test_module(module, g) ==
  IF module.node_type = "NORMAL" THEN TRUE
  ELSE LET vertices_in_module == get_vertices(module)
           vertices_outside == g.V \ Range(vertices_in_module)
       IN IF Len(module.children) = 1 THEN FALSE
          ELSE IF module.node_type = "SERIES" /\ children_node_type(module, "SERIES")
          THEN FALSE
          ELSE IF module.node_type = "PARALLEL" /\ children_node_type(module, "PARALLEL")
          THEN FALSE
          ELSE \A v \in vertices_outside :
                 either_connected_or_not_connected(v, vertices_in_module, g)

get_module_type(g) ==
  IF ~is_connected(g) THEN "PARALLEL"
  ELSE IF is_connected(complement(g)) THEN "PRIME"
  ELSE "SERIES"

\* common_neighbors after the rounds of intersection_update with the
\* neighbor_list of every v in vertices
intersection_updates(common_neighbors, vertices, g) ==
  {x \in common_neighbors \ vertices :
     \A v \in vertices : x \in neighbors(g, v) \ vertices}

\* the vertices of the first child of tree_root that contains v (none: no
\* child holds v and nothing is added)
module_containing(tree_root, v) ==
  LET holding == {index \in 1..Len(tree_root.children) :
                    v \in Range(get_vertices(tree_root.children[index]))}
  IN IF holding = {} THEN {}
     ELSE Range(get_vertices(tree_root.children[Min(holding)]))

RECURSIVE form_module_loop(_, _, _, _, _)
\* one round of the `while True` of form_module and the rounds after it
form_module_loop(vertices, all_neighbors, common_neighbors, tree_root, g) ==
  LET all == (all_neighbors \ vertices)
               \cup UNION {neighbors(g, v) \ vertices : v \in vertices}
      common == intersection_updates(common_neighbors, vertices, g)
  IN IF all = common
     THEN [formed |-> Cardinality(vertices) # order(g), vertices |-> vertices]
     ELSE form_module_loop(
            vertices \cup UNION {module_containing(tree_root, v) : v \in all \ common},
            all, common, tree_root, g)

\* index and other_index are positions in tree_root.children, from 1
form_module(index, other_index, tree_root, g) ==
  form_module_loop(Range(get_vertices(tree_root.children[index]))
                     \cup Range(get_vertices(tree_root.children[other_index])),
                   {}, {}, tree_root, g)

test_maximal_modules(tree_root, g) ==
  IF tree_root.node_type = "NORMAL" THEN TRUE
  ELSE \A index \in 1..Len(tree_root.children) :
         \A other_index \in (index + 1)..Len(tree_root.children) :
           LET module_formed == form_module(index, other_index, tree_root, g)
           IN module_formed.formed =>
                /\ get_module_type(subgraph(g, module_formed.vertices)) = tree_root.node_type
                /\ tree_root.node_type \in {"PARALLEL", "SERIES"}

RECURSIVE test_modular_decomposition(_, _)
test_modular_decomposition(tree_root, g) ==
  IF tree_root.node_type = "NORMAL" THEN TRUE
  ELSE /\ \A i \in 1..Len(tree_root.children) :
            LET module == tree_root.children[i]
            IN /\ test_module(module, g)
               /\ test_modular_decomposition(module,
                                             subgraph(g, Range(get_vertices(module))))
       /\ test_maximal_modules(tree_root, g)

-----------------------------------------------------------------------------
(* Random MD trees and the graphs that have them *)

\* Largest number of leaves of a generated tree.
MaxLeaves == 7

\* the types rand_md_tree chooses from for a child of a node of parent_type
child_types(parent_type) ==
  IF parent_type = "PRIME" THEN {"PRIME", "SERIES", "PARALLEL"}
  ELSE IF parent_type = "SERIES" THEN {"PRIME", "PARALLEL"}
  ELSE {"PRIME", "SERIES"}

\* the least num_children: randint(4, max_fan_out) or randint(2, max_fan_out)
min_children(node_type) == IF node_type = "PRIME" THEN 4 ELSE 2

RECURSIVE rand_md_tree(_, _, _)
RECURSIVE rand_md_children(_, _, _, _)
\* the subtrees with n leaves that rand_md_tree can return below a node of
\* parent_type when current_leaf[0] is current_leaf: the leaves are numbered
\* in the order of their creation, left to right
rand_md_tree(n, parent_type, current_leaf) ==
  IF n = 1 THEN {create_normal_node(current_leaf)}
  ELSE UNION {UNION {{[Node(node_type) EXCEPT !.children = children] :
                        children \in rand_md_children(n, num_children, node_type,
                                                      current_leaf)} :
                     num_children \in min_children(node_type)..n} :
              node_type \in child_types(parent_type)}

\* the lists of num_children subtrees with n leaves in all
rand_md_children(n, num_children, node_type, current_leaf) ==
  IF num_children = 0 THEN (IF n = 0 THEN {<<>>} ELSE {})
  ELSE UNION {{<<first>> \o rest :
                 first \in rand_md_tree(m, node_type, current_leaf),
                 rest \in rand_md_children(n - m, num_children - 1, node_type,
                                           current_leaf + m)} :
              m \in 1..(n - num_children + 1)}

\* the trees with a root of any type, its children as rand_md_tree makes
\* them and at most MaxLeaves leaves, numbered from 0; random_md_tree returns
\* those of them whose root has at least 4 children
MDTrees == UNION {rand_md_tree(n, "PRIME", 0) : n \in 2..MaxLeaves}

random_md_tree == {root \in MDTrees : Len(root.children) >= 4}

RECURSIVE tree_to_vertices_and_edges(_)
\* the vertices, in order, and the edges of the graph that has the tree
tree_to_vertices_and_edges(root) ==
  IF root.node_type = "NORMAL" THEN [vertices |-> root.children, edges |-> {}]
  ELSE LET children_ve == [i \in 1..Len(root.children) |->
                             tree_to_vertices_and_edges(root.children[i])]
           n == Len(children_ve)
           vertex_lists == [i \in 1..n |-> Range(children_ve[i].vertices)]
           product(vs1, vs2) == {{v1, v2} : v1 \in vs1, v2 \in vs2}
           joined == IF root.node_type = "PRIME"
                     THEN {<<i, i + 1>> : i \in 1..(n - 1)}
                     ELSE IF root.node_type = "SERIES"
                     THEN {<<i, j>> \in (1..n) \X (1..n) : i < j}
                     ELSE {}
       IN [vertices |-> FlattenSeq([i \in 1..n |-> children_ve[i].vertices]),
           edges |-> UNION {children_ve[i].edges : i \in 1..n}
                     \cup UNION {product(vertex_lists[ij[1]], vertex_lists[ij[2]]) :
                                   ij \in joined}]

\* a faulty construction: the pairs of vertices that are not edges are joined
md_tree_to_complement(root) ==
  LET ve == tree_to_vertices_and_edges(root)
  IN [V |-> Range(ve.vertices), E |-> Pairs(Range(ve.vertices)) \ ve.edges,
      directed |-> FALSE]

\* Graph([vs, es], format='vertices_and_edges')
md_tree_to_graph(root) ==
  LET ve == tree_to_vertices_and_edges(root)
  IN [V |-> Range(ve.vertices), E |-> ve.edges, directed |-> FALSE]

-----------------------------------------------------------------------------
(* Trees given to equivalent_trees *)

\* Largest number of nodes, leaves included, of two compared trees together.
MaxPairNodes == 6

\* the vertices at the leaves of the compared trees
TestVertices == {1, 2}

\* no two of the children have the same type and the same vertex set
DistinctSiblings(children) ==
  \A i, j \in 1..Len(children) :
    i # j => node_id(children[i]) # node_id(children[j])

RECURSIVE TreesOfSize(_)
RECURSIVE ForestsOfSize(_)
\* the trees of n nodes in which no two siblings have the same type and the
\* same vertex set
TreesOfSize(n) ==
  (IF n = 1 THEN {create_normal_node(v) : v \in TestVertices} ELSE {})
  \cup {[Node(node_type) EXCEPT !.children = children] :
          node_type \in {"PRIME", "SERIES", "PARALLEL"},
          children \in {f \in ForestsOfSize(n - 1) : DistinctSiblings(f)}}

\* the lists of such trees with n nodes in all
ForestsOfSize(n) ==
  IF n = 0 THEN {<<>>}
  ELSE UNION {{<<first>> \o rest : first \in TreesOfSize(m),
                                  rest \in ForestsOfSize(n - m)} : m \in 1..n}

\* the trees compared, by their number of nodes
TestTrees == [n \in 1..(MaxPairNodes - 1) |-> TreesOfSize(n)]

-----------------------------------------------------------------------------
(* The state machine: a driver decomposes one graph with                   *)
(* habib_maurer_algorithm, then either serialises the tree and reads it    *)
(* back, or decomposes a relabeled copy, or runs tedder_algorithm, whose   *)
(* recursion solve() is unfolded on a stack of frames.                     *)

VARIABLES
  graph,        \* the input graph
  pc,           \* the position of the driver
  hm_tree,      \* what habib_maurer_algorithm(graph) gave
  nest,         \* what tree_to_nested_tuple(hm_tree) gave
  decoded,      \* what nested_tuple_to_tree(nest) gave
  perm,         \* the relabeling applied
  relabeled,    \* the two trees compared after relabeling
  heap,         \* the nodes tedder_algorithm has built
  stack,        \* the frames of the calls of solve that pivoted
  arg,          \* the subproblem solve is called on
  ret,          \* the node the last call of solve returned
  tedder_tree,  \* what tedder_algorithm(graph) gave
  tree,         \* an input tree
  root2,        \* a second input tree
  classes,      \* what gamma_classes(graph) gave
  verdict,      \* what a test of the tree returned
  call          \* the last call made on an intrusive node

vars == <<graph, pc, hm_tree, nest, decoded, perm, relabeled,
          heap, stack, arg, ret, tedder_tree, tree, root2, classes, verdict, call>>

\* nothing computed yet
NoResult == [node_type |-> "NONE", children |-> <<>>]

\* the locals of a call of solve past pivot_problem
Frame(this_problem) ==
  [this_problem |-> this_problem, extra_components |-> None,
   leaf_list |-> <<>>, k |-> 0]

this_problem == stack[Len(stack)].this_problem

\* nothing called yet
NoCall == [name |-> "none"]

\* no call of tedder_algorithm has begun
TedderIdle ==
  /\ heap = <<>>
  /\ stack = <<>>
  /\ arg = None
  /\ ret = None
  /\ tedder_tree = NoResult

\* no tree has been serialised, relabeled or tested
TreesIdle ==
  /\ nest = PyList(<<>>)
  /\ decoded = NoResult
  /\ perm = <<>>
  /\ relabeled = [of_graph |-> NoResult, of_tree |-> NoResult]
  /\ root2 = NoResult
  /\ verdict = NoResult
  /\ call = NoCall

Init ==
  /\ \/ graph \in UndirectedGraphs
     \/ graph \in DirectedGraphs
  /\ pc = "start"
  /\ hm_tree = NoResult
  /\ tree = NoResult
  /\ classes = NoClasses
  /\ TreesIdle
  /\ TedderIdle

tedder_vars == <<heap, stack, arg, ret, tedder_tree>>

tree_vars == <<tree, root2, classes, verdict, call>>

other_vars == <<nest, decoded, perm, relabeled, tree_vars>>

HabibMaurer ==
  /\ pc = "start"
  /\ hm_tree' = modular_decomposition(graph)
  /\ pc' = "decomposed"
  /\ UNCHANGED <<graph, other_vars, tedder_vars>>

Encode ==
  /\ pc = "decomposed"
  /\ ~IsRaised(hm_tree)
  /\ nest' = tree_to_nested_tuple(hm_tree)
  /\ pc' = "encoded"
  /\ UNCHANGED <<graph, hm_tree, decoded, perm, relabeled, tedder_vars, tree_vars>>

Decode ==
  /\ pc = "encoded"
  /\ decoded' = nested_tuple_to_tree(nest)
  /\ pc' = "decoded"
  /\ UNCHANGED <<graph, hm_tree, nest, perm, relabeled, tedder_vars, tree_vars>>

\* permute_decomposition: decompose the relabeled graph, relabel the tree
Relabel ==
  /\ pc = "decomposed"
  /\ ~IsRaised(hm_tree)
  /\ \E p \in Relabelings(graph) :
       /\ perm' = p
       /\ relabeled' =
            [of_graph |-> habib_maurer_algorithm(relabel_graph(graph, p)),
             of_tree |-> relabel_tree(hm_tree, [kind |-> "dict", map |-> p])]
  /\ pc' = "relabeled"
  /\ UNCHANGED <<graph, hm_tree, nest, decoded, tedder_vars, tree_vars>>

\* "g_classes = gamma_classes(g)" on the graph that was decomposed
GammaClasses ==
  /\ pc \in {"decomposed", "reconstruction"}
  /\ ~is_directed(graph)
  /\ classes' = [computed |-> TRUE, classes |-> gamma_classes(graph)]
  /\ pc' = "gamma_classes"
  /\ UNCHANGED <<graph, hm_tree, nest, decoded, perm, relabeled, tedder_vars,
                 tree, root2, verdict, call>>

\* tedder_algorithm up to the call main_problem.solve(1)
TedderStart ==
  /\ pc = "decomposed"
  /\ IF is_directed(graph)
     THEN /\ tedder_tree' = Raised("ValueError: Graph must be undirected")
          /\ pc' = "done"
          /\ UNCHANGED <<heap, arg>>
     ELSE IF order(graph) = 0
     THEN /\ tedder_tree' = create_prime_node
          /\ pc' = "done"
          /\ UNCHANGED <<heap, arg>>
     ELSE /\ heap' = tedder_preprocess(graph)
          /\ arg' = order(graph) + 1
          /\ pc' = "solve"
          /\ UNCHANGED tedder_tree
  /\ UNCHANGED <<graph, hm_tree, other_vars, stack, ret>>

\* solve on a subproblem with a single node
SolveLeaf ==
  /\ pc = "solve"
  /\ has_only_one_child(heap, arg)
  /\ LET h1 == [heap EXCEPT ![arg].active = TRUE]
         h2 == [h1 EXCEPT ![arg].pivot = h1[arg].first_child]
         h3 == process_neighbors(h2, arg, h2[arg].pivot).h
         h4 == [h3 EXCEPT ![h3[arg].pivot].visited = TRUE]
     IN /\ heap' = After(<<h1, h2, h3, h4>>)
        /\ ret' = h4[arg].first_child
  /\ pc' = "return"
  /\ UNCHANGED <<graph, hm_tree, other_vars, stack, arg, tedder_tree>>

\* solve on a larger subproblem, up to the first recursive call
SolvePivot ==
  /\ pc = "solve"
  /\ ~has_only_one_child(heap, arg)
  /\ LET pivoted == pivot_problem([heap EXCEPT ![arg].active = TRUE], arg)
     IN /\ heap' = pivoted.h
        /\ stack' = Append(stack, Frame(pivoted.r))
        /\ arg' = pivoted.h[pivoted.r].first_child
  /\ pc' = "solve"
  /\ UNCHANGED <<graph, hm_tree, other_vars, ret, tedder_tree>>

\* "current_sub_problem = solved_root.parent.right_sibling" and the loop test
NextLayer ==
  /\ pc = "return"
  /\ stack # <<>>
  /\ LET current_sub_problem == heap[heap[ret].parent].right_sibling
     IN IF current_sub_problem # None
        THEN arg' = current_sub_problem /\ pc' = "solve"
        ELSE arg' = arg /\ pc' = "remove_extra_components"
  /\ UNCHANGED <<graph, hm_tree, other_vars, heap, stack, ret, tedder_tree>>

RemoveExtraComponents ==
  /\ pc = "remove_extra_components"
  /\ LET res == remove_extra_components(heap, this_problem)
     IN /\ heap' = res.h
        /\ stack' = [stack EXCEPT ![Len(stack)].extra_components = res.r]
  /\ pc' = "remove_layers"
  /\ UNCHANGED <<graph, hm_tree, other_vars, arg, ret, tedder_tree>>

RemoveLayers ==
  /\ pc = "remove_layers"
  /\ heap' = remove_layers(heap, this_problem)
  /\ pc' = "complete_alpha_lists"
  /\ UNCHANGED <<graph, hm_tree, other_vars, stack, arg, ret, tedder_tree>>

CompleteAlphaLists ==
  /\ pc = "complete_alpha_lists"
  /\ heap' = complete_alpha_lists(heap, this_problem)
  /\ pc' = "number_by_comp"
  /\ UNCHANGED <<graph, hm_tree, other_vars, stack, arg, ret, tedder_tree>>

NumberByComp ==
  /\ pc = "number_by_comp"
  /\ heap' = number_by_comp(heap, this_problem)
  /\ pc' = "number_by_tree"
  /\ UNCHANGED <<graph, hm_tree, other_vars, stack, arg, ret, tedder_tree>>

NumberByTree ==
  /\ pc = "number_by_tree"
  /\ heap' = number_by_tree(heap, this_problem)
  /\ pc' = "refinement"
  /\ UNCHANGED <<graph, hm_tree, other_vars, stack, arg, ret, tedder_tree>>

\* refinement: "leaf_list = self.get_leaves()"
Refinement ==
  /\ pc = "refinement"
  /\ stack' = [stack EXCEPT ![Len(stack)].leaf_list = get_leaves(heap, this_problem),
                            ![Len(stack)].k = 1]
  /\ pc' = "refine_with"
  /\ UNCHANGED <<graph, hm_tree, other_vars, heap, arg, ret, tedder_tree>>

\* one turn of "for leaf in leaf_list: self.refine_with(leaf)"
RefineWith ==
  /\ pc = "refine_with"
  /\ LET frame == stack[Len(stack)]
     IN IF frame.k <= Len(frame.leaf_list)
        THEN /\ heap' = refine_with(heap, this_problem, frame.leaf_list[frame.k])
             /\ stack' = [stack EXCEPT ![Len(stack)].k = @ + 1]
             /\ pc' = "refine_with"
        ELSE /\ UNCHANGED <<heap, stack>>
             /\ pc' = "promotion"
  /\ UNCHANGED <<graph, hm_tree, other_vars, arg, ret, tedder_tree>>

Promotion ==
  /\ pc = "promotion"
  /\ heap' = promotion(heap, this_problem)
  /\ pc' = "delineation"
  /\ UNCHANGED <<graph, hm_tree, other_vars, stack, arg, ret, tedder_tree>>

\* an exception leaves tedder_algorithm through every frame of solve
Delineation ==
  /\ pc = "delineation"
  /\ LET res == delineation(heap, this_problem)
     IN /\ heap' = res.h
        /\ IF res.raised
           THEN tedder_tree' = Raised("AttributeError") /\ pc' = "done"
           ELSE tedder_tree' = tedder_tree /\ pc' = "assemble_tree"
  /\ UNCHANGED <<graph, hm_tree, other_vars, stack, arg, ret>>

AssembleTree ==
  /\ pc = "assemble_tree"
  /\ LET res == assemble_tree(heap, this_problem)
     IN /\ heap' = res.h
        /\ IF res.raised
           THEN tedder_tree' = Raised("AttributeError") /\ pc' = "done"
           ELSE tedder_tree' = tedder_tree /\ pc' = "remove_degenerate_duplicates"
  /\ UNCHANGED <<graph, hm_tree, other_vars, stack, arg, ret>>

RemoveDegenerateDuplicates ==
  /\ pc = "remove_degenerate_duplicates"
  /\ heap' = remove_degenerate_duplicates(heap, this_problem)
  /\ pc' = "merge_components"
  /\ UNCHANGED <<graph, hm_tree, other_vars, stack, arg, ret, tedder_tree>>

MergeComponents ==
  /\ pc = "merge_components"
  /\ heap' = merge_components(heap, this_problem, stack[Len(stack)].extra_components)
  /\ pc' = "clear_all_but_visited"
  /\ UNCHANGED <<graph, hm_tree, other_vars, stack, arg, ret, tedder_tree>>

\* the end of solve: clear_all_but_visited and "return this_problem.first_child"
ClearAllButVisited ==
  /\ pc = "clear_all_but_visited"
  /\ LET h1 == clear_all_but_visited(heap, this_problem)
     IN /\ heap' = h1
        /\ ret' = h1[this_problem].first_child
  /\ stack' = SubSeq(stack, 1, Len(stack) - 1)
  /\ pc' = "return"
  /\ UNCHANGED <<graph, hm_tree, other_vars, arg, tedder_tree>>

\* main_problem.solve(1) has returned: the postprocessing
TedderReturn ==
  /\ pc = "return"
  /\ stack = <<>>
  /\ tedder_tree' = _recursive_tedder_to_md(heap, ret)
  /\ pc' = "done"
  /\ UNCHANGED <<graph, hm_tree, other_vars, heap, stack, arg, ret>>

Next ==
  \/ HabibMaurer
  \/ Encode
  \/ Decode
  \/ Relabel
  \/ GammaClasses
  \/ TedderStart
  \/ SolveLeaf
  \/ SolvePivot
  \/ NextLayer
  \/ RemoveExtraComponents
  \/ RemoveLayers
  \/ CompleteAlphaLists
  \/ NumberByComp
  \/ NumberByTree
  \/ Refinement
  \/ RefineWith
  \/ Promotion
  \/ Delineation
  \/ AssembleTree
  \/ RemoveDegenerateDuplicates
  \/ MergeComponents
  \/ ClearAllButVisited
  \/ TedderReturn

Spec == Init /\ [][Next]_vars

-----------------------------------------------------------------------------
(* recreate_decomposition: a tree is made, the graph that has it is built   *)
(* and decomposed, and the two trees are compared.                         *)

NoGraph == [V |-> {}, E |-> {}, directed |-> FALSE]

RecreateInit ==
  /\ tree \in MDTrees
  /\ graph = NoGraph
  /\ pc = "rand_tree"
  /\ hm_tree = NoResult
  /\ classes = NoClasses
  /\ TreesIdle
  /\ TedderIdle

\* "graph = md_tree_to_graph(rand_tree)"
MdTreeToGraph ==
  /\ pc = "rand_tree"
  /\ graph' = md_tree_to_graph(tree)
  /\ pc' = "graph"
  /\ UNCHANGED <<hm_tree, nest, decoded, perm, relabeled, tedder_vars, tree_vars>>

\* "reconstruction = algorithm(graph)" and the test of the assert, for
\* algorithm = habib_maurer_algorithm
Reconstruct ==
  /\ pc = "graph"
  /\ LET reconstruction == habib_maurer_algorithm(graph)
     IN /\ hm_tree' = reconstruction
        /\ verdict' = equivalent_trees(tree, reconstruction)
  /\ pc' = "reconstruction"
  /\ UNCHANGED <<graph, nest, decoded, perm, relabeled, tedder_vars,
                 tree, root2, classes, call>>

RecreateNext ==
  \/ MdTreeToGraph
  \/ Reconstruct
  \/ GammaClasses

RecreateSpec == RecreateInit /\ [][RecreateNext]_vars

-----------------------------------------------------------------------------
(* Properties of the returned trees *)

\* S is a module of g: every vertex outside S is adjacent to all of S or to
\* none of it
IsModule(g, S) ==
  \A v \in g.V \ S : neighbors(g, v) \cap S = {} \/ S \subseteq neighbors(g, v)

\* the leaf vertices below a node
LeafSet(root) == Range(get_vertices(root))

RECURSIVE NodesAreModules(_, _)
\* the leaf set of every internal node of the tree is a module of g
NodesAreModules(g, root) ==
  \/ root.node_type = "NORMAL"
  \/ /\ IsModule(g, LeafSet(root))
     /\ \A i \in 1..Len(root.children) : NodesAreModules(g, root.children[i])

RECURSIVE SmallestModule(_, _)
\* the smallest module of g that contains S: a vertex adjacent to some of S
\* and not to all of it lies in every module that contains S
SmallestModule(g, S) ==
  LET splitters == {v \in g.V \ S :
                      neighbors(g, v) \cap S # {} /\ ~(S \subseteq neighbors(g, v))}
  IN IF splitters = {} THEN S ELSE SmallestModule(g, S \cup splitters)

\* the type of the root of the decomposition of the subgraph induced by S
InducedType(g, S) ==
  IF ~is_connected(subgraph(g, S)) THEN "PARALLEL"
  ELSE IF ~is_connected(complement(subgraph(g, S))) THEN "SERIES"
  ELSE "PRIME"

RECURSIVE SiblingsAreMaximal(_, _)
\* at every node N, the smallest module that contains two children of N is
\* the whole of N or, for a SERIES or PARALLEL N, a union of children of N
\* that induces a graph of the type of N
SiblingsAreMaximal(g, N) ==
  \/ N.node_type = "NORMAL"
  \/ LET n == Len(N.children)
         leaves(i) == LeafSet(N.children[i])
     IN /\ \A i, j \in 1..n :
             i < j =>
               LET m == SmallestModule(g, leaves(i) \cup leaves(j))
               IN \/ m = LeafSet(N)
                  \/ /\ is_degenerate(N.node_type)
                     /\ \E K \in SUBSET (1..n) : m = UNION {leaves(k) : k \in K}
                     /\ InducedType(g, m) = N.node_type
        /\ \A i \in 1..n : SiblingsAreMaximal(g, N.children[i])

RECURSIVE NoRedundantNesting(_)
\* no SERIES node below a SERIES node and no PARALLEL node below a PARALLEL one
NoRedundantNesting(root) ==
  \/ root.node_type = "NORMAL"
  \/ \A i \in 1..Len(root.children) :
       /\ ~(is_degenerate(root.node_type)
            /\ root.children[i].node_type = root.node_type)
       /\ NoRedundantNesting(root.children[i])

\* a root of the given type whose children are leaves, one for each vertex
IsFlat(root, node_type, V) ==
  /\ root.node_type = node_type
  /\ Len(root.children) = Cardinality(V)
  /\ \A i \in 1..Len(root.children) : root.children[i].node_type = "NORMAL"
  /\ LeafSet(root) = V

\* t is the tree a base case g demands: any tree when g is no base case
IsBaseCaseTree(g, t) ==
  /\ order(g) = 0 => t = create_prime_node
  /\ order(g) = 1 => \E v \in g.V : t = create_normal_node(v)
  /\ order(g) >= 2 /\ g.E = Pairs(g.V) => IsFlat(t, "SERIES", g.V)
  /\ order(g) >= 2 /\ g.E = {} => IsFlat(t, "PARALLEL", g.V)

\* tedder_algorithm has ended on an undirected graph
TedderDone == pc = "done" /\ ~is_directed(graph)

ValueError == Raised("ValueError: Graph must be undirected")

\* C1: for every undirected graph, equivalent_trees finds the tree of
\* habib_maurer_algorithm and the tree of tedder_algorithm equivalent.
C1_DecomposersAgree == TedderDone => equivalent_trees(hm_tree, tedder_tree)

\* C2: decoding the nested tuple that tree_to_nested_tuple made of a
\* decomposition tree gives a tree equivalent to that tree.
C2_RoundTrip == pc = "decoded" => equivalent_trees(decoded, hm_tree)

\* C3: in the tree either decomposer returns, the leaf set of every internal
\* node is a module of the graph.
C3_NodesAreModules ==
  TedderDone =>
    /\ NodesAreModules(graph, hm_tree)
    /\ ~IsRaised(tedder_tree) => NodesAreModules(graph, tedder_tree)

\* C4: in the tree either decomposer returns, the smallest module containing
\* two children of a node N is N's whole vertex set or, for a SERIES or
\* PARALLEL N, a union of N's children inducing a graph of N's type.
C4_SiblingsAreMaximal ==
  TedderDone =>
    /\ SiblingsAreMaximal(graph, hm_tree)
    /\ ~IsRaised(tedder_tree) => SiblingsAreMaximal(graph, tedder_tree)

\* C5: no SERIES node has a SERIES parent and no PARALLEL node a PARALLEL
\* parent in the tree habib_maurer_algorithm returns, in the tree
\* tedder_algorithm returns, and in the tree of a subproblem right after
\* merge_components has re-attached the extra components.
C5_NoRedundantNesting ==
  /\ pc # "start" /\ ~IsRaised(hm_tree) => NoRedundantNesting(hm_tree)
  /\ pc = "done" /\ ~IsRaised(tedder_tree) => NoRedundantNesting(tedder_tree)
  /\ pc = "clear_all_but_visited" =>
       NoRedundantNesting(_recursive_tedder_to_md(heap, heap[this_problem].first_child))

\* merge_components has put the tree of the first component and the extra
\* components under one PARALLEL root
C5_Merged ==
  /\ pc = "clear_all_but_visited"
  /\ stack[Len(stack)].extra_components # None
  /\ heap[heap[this_problem].first_child].type = "PARALLEL"
  /\ Len(Children(heap, heap[this_problem].first_child)) >= 3

\* C6: both decomposers give a PRIME node without children for the empty
\* graph, the leaf of the vertex for a one-vertex graph, a SERIES root over n
\* leaves for the complete graph and a PARALLEL root over n leaves for the
\* edgeless graph on n >= 2 vertices.
C6_BaseCases ==
  TedderDone => IsBaseCaseTree(graph, hm_tree) /\ IsBaseCaseTree(graph, tedder_tree)

\* both decomposers have decomposed the largest complete graph
C6_CompleteDone ==
  /\ pc = "done"
  /\ graph = CompleteGraph(MaxN + 1)
  /\ tedder_tree.node_type = "SERIES"
  /\ hm_tree.node_type = "SERIES"

\* C7: modular_decomposition gives for the octahedron a SERIES root with
\* exactly three children, all PARALLEL, over the leaves {0,5}, {1,4}, {2,3}.
C7_Octahedron ==
  pc # "start" /\ graph = OctahedralGraph =>
    /\ hm_tree.node_type = "SERIES"
    /\ Len(hm_tree.children) = 3
    /\ \A i \in 1..3 :
         /\ hm_tree.children[i].node_type = "PARALLEL"
         /\ Len(hm_tree.children[i].children) = 2
         /\ \A j \in 1..2 : hm_tree.children[i].children[j].node_type = "NORMAL"
    /\ {LeafSet(hm_tree.children[i]) : i \in 1..3} = {{0, 5}, {1, 4}, {2, 3}}

\* the octahedron has been decomposed
C7_OctahedronDecomposed ==
  pc = "decomposed" /\ graph = OctahedralGraph /\ ~IsRaised(hm_tree)

\* C8: on a directed graph, the empty one included, habib_maurer_algorithm
\* and tedder_algorithm raise "Graph must be undirected"; tedder_algorithm
\* has built no node and entered no call of solve, and no tree is returned.
C8_DirectedRejected ==
  is_directed(graph) =>
    /\ pc # "start" => hm_tree = ValueError
    /\ pc \in {"start", "decomposed", "done"}
    /\ heap = <<>> /\ stack = <<>> /\ arg = None /\ ret = None
    /\ pc = "done" => tedder_tree = ValueError
    /\ pc # "done" => tedder_tree = NoResult

\* both decomposers have rejected the empty directed graph
C8_EmptyDirectedRejected ==
  /\ pc = "done"
  /\ is_directed(graph)
  /\ order(graph) = 0
  /\ IsRaised(hm_tree)
  /\ IsRaised(tedder_tree)

\* C9: on every undirected graph tedder_algorithm returns a tree: no phase of
\* solve raises.
C9_TedderReturnsTree == TedderDone => ~IsRaised(tedder_tree)

\* C10: for a permutation p of the vertices of G, the tree
\* habib_maurer_algorithm computes for p(G) is equivalent to the tree it
\* computes for G relabeled by p.
C10_RelabelingCommutes ==
  pc = "relabeled" => equivalent_trees(relabeled.of_graph, relabeled.of_tree)

\* a graph whose tree has a nested node has been relabeled by a permutation
\* that moves a vertex, and the two trees compared are not the same tree
C10_Relabeled ==
  /\ pc = "relabeled"
  /\ \E v \in graph.V : perm[v] # v
  /\ \E i \in 1..Len(hm_tree.children) : hm_tree.children[i].node_type # "NORMAL"
  /\ relabeled.of_tree # hm_tree
  /\ relabeled.of_graph # relabeled.of_tree

\* C13: the vertices touched by the edges of a gamma class of an undirected
\* graph form a module of the graph.
C13_GammaClassesAreModules ==
  pc = "gamma_classes" =>
    \A class \in classes.classes : IsModule(graph, ClassVertices(class))

\* a gamma class of more than one edge that does not span the graph has been
\* computed, and some vertex outside it is adjacent to its vertices
C13_ProperClassComputed ==
  /\ pc = "gamma_classes"
  /\ \E class \in classes.classes :
       /\ Cardinality(class) >= 2
       /\ ClassVertices(class) # graph.V
       /\ \E v \in graph.V \ ClassVertices(class) :
            ClassVertices(class) \subseteq neighbors(graph, v)

RECURSIVE habib_maurer_recomputing(_)
\* the decomposition without the cache: the gamma classes are computed anew
\* for the graph of every PRIME node
habib_maurer_recomputing(g) ==
  IF order(g) = 0 THEN create_prime_node
  ELSE IF order(g) = 1 THEN create_normal_node(CHOOSE v \in g.V : TRUE)
  ELSE IF ~is_connected(g)
  THEN LET comps == connected_components(g)
       IN [create_parallel_node EXCEPT !.children =
             [i \in 1..Len(comps) |-> habib_maurer_recomputing(subgraph(g, comps[i]))]]
  ELSE IF ~is_connected(complement(g))
  THEN LET comps == connected_components(complement(g))
       IN [create_series_node EXCEPT !.children =
             [i \in 1..Len(comps) |-> habib_maurer_recomputing(subgraph(g, comps[i]))]]
  ELSE LET spanning == {c \in gamma_classes(g) : ClassVertices(c) = g.V}
           sgs == Buckets(subgraph_edges(g, CHOOSE c \in spanning : TRUE))
       IN IF spanning = {} THEN Raised("KeyError")
          ELSE [create_prime_node EXCEPT !.children =
                  [i \in 1..Len(sgs) |-> habib_maurer_recomputing(subgraph(g, sgs[i]))]]

RECURSIVE PrimeLeafSets(_)
\* the vertex sets of the PRIME nodes of a tree that have children (the
\* PRIME node of the empty graph has none and is built without a lookup)
PrimeLeafSets(root) ==
  IF root.node_type = "NORMAL" THEN {}
  ELSE (IF root.node_type = "PRIME" /\ Len(root.children) > 0
        THEN {LeafSet(root)} ELSE {})
       \cup UNION {PrimeLeafSets(root.children[i]) : i \in 1..Len(root.children)}

\* exactly one gamma class of g spans the vertices of g
OneSpanningClass(g) ==
  Cardinality({c \in gamma_classes(g) : ClassVertices(c) = g.V}) = 1

\* C14: a graph of at least 2 vertices that is connected and has a connected
\* complement has exactly one gamma class that spans its vertices; in
\* habib_maurer_algorithm the lookup of the vertex set among the gamma
\* classes succeeds at every PRIME node, also with the classes of an ancestor
\* graph, and the tree is the one computed without threading the classes.
C14_SpanningClassLookup ==
  pc = "gamma_classes" =>
    /\ \A S \in SUBSET graph.V :
         LET H == subgraph(graph, S)
         IN Cardinality(S) >= 2 /\ is_connected(H) /\ is_connected(complement(H))
              => OneSpanningClass(H)
    /\ ~IsRaised(hm_tree)
    /\ hm_tree = habib_maurer_recomputing(graph)
    /\ \A S \in PrimeLeafSets(hm_tree) :
         Cardinality({c \in classes.classes : ClassVertices(c) = S}) = 1

\* a graph with a PRIME node below its PRIME root has been decomposed with
\* the gamma classes of the whole graph threaded down
C14_NestedPrimeLookup ==
  /\ pc = "gamma_classes"
  /\ hm_tree.node_type = "PRIME"
  /\ \E i \in 1..Len(hm_tree.children) : hm_tree.children[i].node_type = "PRIME"
  /\ classes.computed

\* C11: for a tree whose SERIES and PARALLEL nodes have at least 2 children,
\* none of their own type, and whose PRIME nodes have at least 4 children,
\* habib_maurer_algorithm gives for the graph md_tree_to_graph builds of the
\* tree a tree that equivalent_trees finds equivalent to it.
C11_Recreated == pc = "reconstruction" => verdict = TRUE

\* a tree with a PRIME node below its PRIME root has been recreated
C11_NestedPrimeRecreated ==
  /\ pc = "reconstruction"
  /\ tree.node_type = "PRIME"
  /\ \E i \in 1..Len(tree.children) : tree.children[i].node_type = "PRIME"
  /\ ~IsRaised(hm_tree)
  /\ order(graph) = MaxLeaves

-----------------------------------------------------------------------------
(* equivalent_trees on two trees *)

EquivalenceInit ==
  /\ \E n1 \in 1..(MaxPairNodes - 1) :
       /\ tree \in TestTrees[n1]
       /\ \E n2 \in 1..(MaxPairNodes - n1) : root2 \in TestTrees[n2]
  /\ graph = NoGraph
  /\ pc = "trees"
  /\ hm_tree = NoResult
  /\ classes = NoClasses
  /\ nest = PyList(<<>>)
  /\ decoded = NoResult
  /\ perm = <<>>
  /\ relabeled = [of_graph |-> NoResult, of_tree |-> NoResult]
  /\ verdict = NoResult
  /\ call = NoCall
  /\ TedderIdle

EquivalentTrees ==
  /\ pc = "trees"
  /\ verdict' = equivalent_trees(tree, root2)
  /\ pc' = "compared"
  /\ UNCHANGED <<graph, hm_tree, nest, decoded, perm, relabeled, tedder_vars,
                 tree, root2, classes, call>>

EquivalenceNext == EquivalentTrees

EquivalenceSpec == EquivalenceInit /\ [][EquivalenceNext]_vars

RECURSIVE PairedEquivalent(_, _)
\* the types match, the numbers of children match and the children can be
\* paired by (type, vertex set) into pairs that are equivalent in turn; two
\* leaves are equivalent when they carry the same vertex
PairedEquivalent(t1, t2) ==
  /\ t1.node_type = t2.node_type
  /\ Len(t1.children) = Len(t2.children)
  /\ IF t1.node_type = "NORMAL" THEN t1.children = t2.children
     ELSE \E pairing \in VertexPermutations(1..Len(t1.children)) :
            \A i \in 1..Len(t1.children) :
              /\ node_id(t1.children[i]) = node_id(t2.children[pairing[i]])
              /\ PairedEquivalent(t1.children[i], t2.children[pairing[i]])

RECURSIVE ListsOver(_, _)
\* the lists of k elements whose i-th element is in sets[i]
ListsOver(sets, k) ==
  IF k = 0 THEN {<<>>}
  ELSE {Append(cs, c) : cs \in ListsOver(sets, k - 1), c \in sets[k]}

RECURSIVE Reorderings(_)
\* the trees got from t by reordering the children of any of its nodes
Reorderings(t) ==
  IF t.node_type = "NORMAL" THEN {t}
  ELSE LET n == Len(t.children)
           below == [i \in 1..n |-> Reorderings(t.children[i])]
       IN {[t EXCEPT !.children = [i \in 1..n |-> cs[p[i]]]] :
             cs \in ListsOver(below, n), p \in VertexPermutations(1..n)}

\* C12: on trees without two siblings of the same type and vertex set,
\* equivalent_trees returns True exactly when the types match, the numbers
\* of children match and the children can be paired by (type, vertex set)
\* into equivalent pairs; it returns the same with the arguments exchanged
\* and with the children of any nodes reordered.
C12_EquivalenceIsPairing ==
  pc = "compared" =>
    /\ verdict = PairedEquivalent(tree, root2)
    /\ equivalent_trees(root2, tree) = verdict
    /\ \A r1 \in Reorderings(tree) : equivalent_trees(r1, root2) = verdict
    /\ \A r2 \in Reorderings(root2) : equivalent_trees(tree, r2) = verdict

\* two trees that differ in the order of children have been found equivalent
C12_ReorderedEquivalent ==
  /\ pc = "compared"
  /\ verdict = TRUE
  /\ tree # root2
  /\ Len(tree.children) = 2

\* every vertex of g is the vertex of exactly one leaf of the tree t
LeavesAreVertices(g, t) ==
  /\ ~IsRaised(t)
  /\ Range(get_vertices(t)) = g.V
  /\ Len(get_vertices(t)) = order(g)

\* C17: for an undirected graph of at least one vertex, every vertex is the
\* vertex of exactly one leaf of the tree tedder_algorithm returns, and of
\* exactly one leaf of the tree habib_maurer_algorithm returns.
C17_LeavesAreVertices ==
  TedderDone /\ order(graph) >= 1 =>
    /\ LeavesAreVertices(graph, tedder_tree)
    /\ LeavesAreVertices(graph, hm_tree)

RECURSIVE InternalNodesBranch(_)
\* every node that is not a leaf has at least two children
InternalNodesBranch(t) ==
  t.node_type = "NORMAL"
  \/ /\ Len(t.children) >= 2
     /\ \A i \in 1..Len(t.children) : InternalNodesBranch(t.children[i])

RECURSIVE Height(_)
Height(t) ==
  IF t.node_type = "NORMAL" \/ t.children = <<>> THEN 0
  ELSE LET heights == {Height(t.children[i]) : i \in 1..Len(t.children)}
       IN 1 + CHOOSE x \in heights : \A y \in heights : y <= x

\* C18: for a graph of at least one vertex, every node of the tree
\* tedder_algorithm returns that is not a leaf has at least two children.
C18_InternalNodesBranch ==
  TedderDone /\ order(graph) >= 1 /\ ~IsRaised(tedder_tree) =>
    InternalNodesBranch(tedder_tree)

\* tedder_algorithm has returned a tree with internal nodes on three levels
C18_DeepTreeReturned ==
  /\ TedderDone
  /\ ~IsRaised(tedder_tree)
  /\ Height(tedder_tree) >= 3
  /\ InternalNodesBranch(tedder_tree)

-----------------------------------------------------------------------------
(* test_modular_decomposition and form_module on a tree and a graph *)

\* the graphs have 1..MaxTestN vertices, the trees at most MaxInternal
\* internal nodes
MaxTestN == 4
MaxInternal == 3

InternalTypes == {"PRIME", "SERIES", "PARALLEL"}

RECURSIVE TreesOn(_, _, _)
RECURSIVE ForestsOn(_, _, _)
\* the trees with the leaves lo..hi from left to right and at most k internal
\* nodes, each with at least one child
TreesOn(lo, hi, k) ==
  (IF lo = hi THEN {create_normal_node(lo)} ELSE {})
  \cup (IF k = 0 THEN {}
        ELSE {[node_type |-> node_type, children |-> children] :
                node_type \in InternalTypes, children \in ForestsOn(lo, hi, k - 1)})

\* the non-empty lists of trees over lo..hi with at most k internal nodes
ForestsOn(lo, hi, k) ==
  {<<root>> : root \in TreesOn(lo, hi, k)}
  \cup UNION {UNION {{<<root>> \o rest : root \in TreesOn(lo, m, j),
                                         rest \in ForestsOn(m + 1, hi, k - j)} :
                       j \in 0..k} :
               m \in lo..(hi - 1)}

TreesWithLeaves == [n \in 1..MaxTestN |-> TreesOn(1, n, MaxInternal)]

TestInit ==
  /\ pc = "tree_and_graph"
  /\ \E n \in 1..MaxTestN :
       /\ graph \in GraphsOn(1..n)
       /\ tree \in TreesWithLeaves[n]
  /\ hm_tree = NoResult
  /\ classes = NoClasses
  /\ TreesIdle
  /\ TedderIdle

TestModularDecomposition ==
  /\ pc = "tree_and_graph"
  /\ verdict' = test_modular_decomposition(tree, graph)
  /\ call' = [name |-> "test_modular_decomposition"]
  /\ pc' = "tested"
  /\ UNCHANGED <<graph, hm_tree, nest, decoded, perm, relabeled, tedder_vars,
                 tree, root2, classes>>

FormModule ==
  /\ pc = "tree_and_graph"
  /\ tree.node_type # "NORMAL"
  /\ \E index \in 1..Len(tree.children) :
       \E other_index \in (index + 1)..Len(tree.children) :
         /\ verdict' = form_module(index, other_index, tree, graph)
         /\ call' = [name |-> "form_module", index |-> index,
                                             other_index |-> other_index]
  /\ pc' = "formed"
  /\ UNCHANGED <<graph, hm_tree, nest, decoded, perm, relabeled, tedder_vars,
                 tree, root2, classes>>

TestNext == TestModularDecomposition \/ FormModule

TestSpec == TestInit /\ [][TestNext]_vars

\* C15: for a tree whose leaves are the vertices of the graph,
\* test_modular_decomposition is True exactly when the tree is equivalent to
\* the modular decomposition tree of the graph.
C15_TestDecidesDecomposition ==
  pc = "tested" =>
    (verdict = equivalent_trees(tree, habib_maurer_algorithm(graph)))

\* the unions of children of tree_root that contain children index and
\* other_index and are modules of g
ModuleUnions(index, other_index, tree_root, g) ==
  {S \in {UNION {LeafSet(tree_root.children[k]) : k \in K} :
            K \in {K \in SUBSET (1..Len(tree_root.children)) :
                     index \in K /\ other_index \in K}} :
     IsModule(g, S)}

\* C16: form_module returns the minimal union of children that holds the two
\* given children and is a module, with the flag True exactly when that
\* module is a proper subset of the vertices.
C16_FormsMinimalModule ==
  pc = "formed" =>
    LET unions == ModuleUnions(call.index, call.other_index, tree, graph)
    IN /\ verdict.vertices \in unions
       /\ \A S \in unions : verdict.vertices \subseteq S
       /\ verdict.formed = (verdict.vertices # graph.V)

-----------------------------------------------------------------------------
(* The operations of _TedderTreeNode on a few nodes *)

MaxNodes == 4

RECURSIVE AncestorsFrom(_, _, _)
\* the nodes met going up from current by parent; seen cuts a cycle short
AncestorsFrom(h, current, seen) ==
  IF current = None \/ current \in seen THEN seen
  ELSE AncestorsFrom(h, h[current].parent, seen \cup {current})

Ancestors(h, self) == AncestorsFrom(h, h[self].parent, {})

\* an argument of a method of self: another node, not an ancestor of self
Arguments(h, self) == (1..Len(h)) \ ({self} \cup Ancestors(h, self))

\* insert_before and insert_after move self next to the argument: the call
\* is proper when self is not an ancestor of the argument
Proper(name, h, self, argument) ==
  name \in {"insert_before", "insert_after"} => self \notin Ancestors(h, argument)

RECURSIVE ChainWithin(_, _, _)
\* the sibling chain from current, cut after k nodes
ChainWithin(h, current, k) ==
  IF current = None \/ k = 0 THEN <<>>
  ELSE <<current>> \o ChainWithin(h, h[current].right_sibling, k - 1)

\* the child chain of a node; a chain that comes back on itself shows as a
\* chain of more nodes than there are
ChildChain(h, self) == ChainWithin(h, h[self].first_child, Len(h) + 1)

\* the bookkeeping of parents, siblings and counts of children is consistent
Consistent(h) ==
  /\ \A n \in 1..Len(h) :
       LET chain == ChildChain(h, n)
       IN /\ h[n].num_children = Len(chain)
          /\ \A k \in 1..Len(chain) : h[chain[k]].parent = n
          /\ h[n].first_child # None => h[h[n].first_child].left_sibling = None
          /\ h[n].left_sibling # None => h[h[n].left_sibling].right_sibling = n
          /\ h[n].right_sibling # None => h[h[n].right_sibling].left_sibling = n
  /\ LET chained == FlattenSeq([n \in 1..Len(h) |-> ChildChain(h, n)])
     IN Cardinality(Range(chained)) = Len(chained)

RECURSIVE replace_by_children_ends(_, _, _, _)
\* whether the loop of replace_this_by_its_children ends within the given
\* number of rounds: on a node that is in its own child chain it goes round
\* for ever
replace_by_children_ends(h, self, current_child, rounds) ==
  IF current_child = None THEN TRUE
  ELSE IF rounds = 0 THEN FALSE
  ELSE replace_by_children_ends(insert_before(h, current_child, self), self,
                                h[current_child].right_sibling, rounds - 1)

\* The calls are followed as long as the bookkeeping is consistent: every
\* operation below starts from a consistent heap.

NodesInit ==
  /\ pc = "nodes"
  /\ heap = [n \in 1..MaxNodes |-> _TedderTreeNode]
  /\ call = [name |-> "none", proper |-> TRUE]
  /\ stack = <<>> /\ arg = None /\ ret = None /\ tedder_tree = NoResult
  /\ graph = NoGraph
  /\ hm_tree = NoResult
  /\ tree = NoResult
  /\ classes = NoClasses
  /\ nest = PyList(<<>>) /\ decoded = NoResult /\ perm = <<>>
  /\ relabeled = [of_graph |-> NoResult, of_tree |-> NoResult]
  /\ root2 = NoResult
  /\ verdict = NoResult

\* the call self.name(argument) on the heap: call keeps whether every call so
\* far was proper and, for replace_with, the heap before the call
Called(name, self, argument, after) ==
  /\ heap' = after
  /\ call' = [name |-> name, self |-> self, argument |-> argument,
              before |-> IF name = "replace_with" THEN heap ELSE <<>>,
              proper |-> call.proper /\ Proper(name, heap, self, argument)]
  /\ UNCHANGED <<graph, pc, hm_tree, nest, decoded, perm, relabeled,
                 stack, arg, ret, tedder_tree, tree, root2, classes, verdict>>

AddChild ==
  /\ Consistent(heap)
  /\ \E self \in 1..Len(heap) : \E child \in Arguments(heap, self) :
       Called("add_child", self, child, add_child(heap, self, child))

Remove ==
  /\ Consistent(heap)
  /\ \E self \in 1..Len(heap) : Called("remove", self, None, remove(heap, self))

ReplaceWith ==
  /\ Consistent(heap)
  /\ \E self \in 1..Len(heap) : \E replacement \in Arguments(heap, self) :
       Called("replace_with", self, replacement, replace_with(heap, self, replacement))

InsertBefore ==
  /\ Consistent(heap)
  /\ \E self \in 1..Len(heap) : \E just_before \in Arguments(heap, self) :
       Called("insert_before", self, just_before, insert_before(heap, self, just_before))

InsertAfter ==
  /\ Consistent(heap)
  /\ \E self \in 1..Len(heap) : \E just_after \in Arguments(heap, self) :
       Called("insert_after", self, just_after, insert_after(heap, self, just_after))

MakeFirstChild ==
  /\ Consistent(heap)
  /\ \E self \in 1..Len(heap) :
       Called("make_first_child", self, None, make_first_child(heap, self))

AddChildrenFrom ==
  /\ Consistent(heap)
  /\ \E self \in 1..Len(heap) : \E parent \in Arguments(heap, self) :
       Called("add_children_from", self, parent, add_children_from(heap, self, parent))

\* the call returns only when its loop ends
ReplaceThisByItsChildren ==
  /\ Consistent(heap)
  /\ \E self \in 1..Len(heap) :
       /\ replace_by_children_ends(heap, self, heap[self].first_child, 3 * Len(heap))
       /\ Called("replace_this_by_its_children", self, None,
                 replace_this_by_its_children(heap, self))

ReplaceChildrenWith ==
  /\ Consistent(heap)
  /\ \E self \in 1..Len(heap) : \E replacement \in Arguments(heap, self) :
       Called("replace_children_with", self, replacement,
           replace_children_with(heap, self, replacement))

NodesNext ==
  \/ AddChild
  \/ Remove
  \/ ReplaceWith
  \/ InsertBefore
  \/ InsertAfter
  \/ MakeFirstChild
  \/ AddChildrenFrom
  \/ ReplaceThisByItsChildren
  \/ ReplaceChildrenWith

NodesSpec == NodesInit /\ [][NodesNext]_vars

\* C19 as stated: after any sequence of the operations of _TedderTreeNode
\* with every argument another node that is not an ancestor of the receiver,
\* every node has num_children equal to the length of its child chain, is
\* the parent of every node of that chain, has mutually inverse sibling links
\* and a first child without a left sibling, and no node is in two child
\* chains.
C19_NodesStayConsistent == pc = "nodes" => Consistent(heap)

\* C19 amended: the same, for the sequences in which, besides, insert_before
\* and insert_after are never called on an ancestor of their argument.
C19_ProperCallsKeepConsistent == pc = "nodes" /\ call.proper => Consistent(heap)

\* after proper calls only, a node with a parent and two children has been
\* replaced by one of its children
C19_ReplacedByChild ==
  /\ pc = "nodes"
  /\ call.proper
  /\ call.name = "replace_with"
  /\ call.before[call.self].parent # None
  /\ call.before[call.self].num_children = 2
  /\ call.before[call.argument].parent = call.self
  /\ heap[call.self].num_children = 1

RECURSIVE LeftMost(_, _, _)
\* the node at the left end of the sibling chain of n, at most k steps away
LeftMost(h, n, k) ==
  IF h[n].left_sibling = None \/ k = 0 THEN n
  ELSE LeftMost(h, h[n].left_sibling, k - 1)

\* the sibling chain that holds n, from its left end
SiblingChain(h, n) == ChainWithin(h, LeftMost(h, n, Len(h)), Len(h) + 1)

\* the chain with r taken out and x replaced by r
WithReplacement(chain, x, r) ==
  LET Other(n) == n # r
      others == SelectSeq(chain, Other)
  IN [k \in 1..Len(others) |-> IF others[k] = x THEN r ELSE others[k]]

\* what x.replace_with(r) leaves of x: no parent, no siblings, and the
\* children it had except r
Detached(before, after, x, r) ==
  LET Other(n) == n # r
  IN /\ after[x].parent = None
     /\ after[x].left_sibling = None
     /\ after[x].right_sibling = None
     /\ ChildChain(after, x) = SelectSeq(ChildChain(before, x), Other)
     /\ after[x].num_children = Len(ChildChain(after, x))

\* the former parent of x counts its children right
ParentCounts(before, after, x) ==
  before[x].parent # None =>
    after[before[x].parent].num_children = Len(ChildChain(after, before[x].parent))

\* replace_with has been called in a sequence of proper calls
Replaced == pc = "nodes" /\ call.name = "replace_with" /\ call.proper

\* C20 as stated: after x.replace_with(r), r has the former parent, the
\* former left sibling and the former right sibling of x and is the first
\* child of the parent iff x was; x has no parent and no siblings and keeps
\* its other children; the parent's num_children is the number of its
\* children.
C20_ReplacementHasFormerSiblings ==
  Replaced =>
    LET x == call.self
        r == call.argument
        parent == call.before[x].parent
    IN /\ heap[r].parent = parent
       /\ heap[r].left_sibling = call.before[x].left_sibling
       /\ heap[r].right_sibling = call.before[x].right_sibling
       /\ parent # None =>
            ((heap[parent].first_child = r) <=> (call.before[parent].first_child = x))
       /\ Detached(call.before, heap, x, r)
       /\ ParentCounts(call.before, heap, x)

\* C20 amended: after x.replace_with(r), r has the former parent of x and
\* the place of x among the former siblings of x other than r: the sibling
\* chain of r is the former sibling chain of x with r taken out and x
\* replaced by r, and it is the child chain of the parent; x has no parent
\* and no siblings and keeps its other children; the parent's num_children
\* is the number of its children.
C20_ReplacementTakesPlace ==
  Replaced =>
    LET x == call.self
        r == call.argument
        parent == call.before[x].parent
    IN /\ heap[r].parent = parent
       /\ SiblingChain(heap, r) = WithReplacement(SiblingChain(call.before, x), x, r)
       /\ parent # None => ChildChain(heap, parent) = SiblingChain(heap, r)
       /\ Detached(call.before, heap, x, r)
       /\ ParentCounts(call.before, heap, x)

\* a second child has been replaced by the first child, its left sibling,
\* and has a right sibling
C20_ReplacedByLeftSibling ==
  /\ Replaced
  /\ call.before[call.self].parent # None
  /\ call.before[call.self].left_sibling = call.argument
  /\ call.before[call.self].right_sibling # None
  /\ call.before[call.before[call.self].parent].first_child = call.argument

-----------------------------------------------------------------------------
(* The forest of a subproblem and its split marks *)

\* the MD nodes attached in the forest of a subproblem
Forest(h, self) == UNION {Subtree(h, c) : c \in Range(Children(h, self))}

\* the roots of the forest of a subproblem, the nodes of depth 0
Roots(h, self) == Range(Children(h, self))

\* the MD ancestors of a node of a forest
MDAncestors(h, n) == {a \in Ancestors(h, n) : h[a].kind # "_TedderSubProblem"}

Directions == {"LEFT_SPLIT", "RIGHT_SPLIT"}

\* the nodes of the forest that carry a left or a right split mark
SplitMarked(h, self) == {n \in Forest(h, self) : h[n].split_type # "NO_SPLIT"}

\* the precondition of promotion: the ancestors of a node marked by a
\* direction are marked by it
AncestorsCarryMarks(h, self) ==
  \A n \in Forest(h, self) : \A t \in Directions :
    is_split_marked(h, n, t) => \A a \in MDAncestors(h, n) : is_split_marked(h, a, t)

\* promotion is about to run on a forest that meets its precondition
Promoting == pc = "promotion" /\ AncestorsCarryMarks(heap, this_problem)

\* C21: after promotion() on a forest in which the ancestors of every
\* split-marked node carry the same mark, every node that carried a split
\* mark (LEFT_SPLIT, RIGHT_SPLIT or BOTH_SPLIT) when promotion started and
\* is still in the forest is a root of the forest, and every node's split
\* mark is NO_SPLIT.
C21_MarkedNodesPromoted ==
  Promoting =>
    LET after == promotion(heap, this_problem)
    IN /\ \A n \in SplitMarked(heap, this_problem) \cap Forest(after, this_problem) :
            n \in Roots(after, this_problem)
       /\ \A n \in Forest(after, this_problem) : after[n].split_type = "NO_SPLIT"

\* the split marks of a forest are closed: a direction carried by a node is
\* carried by its MD ancestors and by the children of its PRIME ancestors
MarksClosed(h, self) ==
  \A n \in Forest(h, self) : \A t \in Directions :
    is_split_marked(h, n, t) =>
      \A a \in MDAncestors(h, n) :
        /\ is_split_marked(h, a, t)
        /\ h[a].type = "PRIME" =>
             \A c \in Range(Children(h, a)) : is_split_marked(h, c, t)

\* refine_with has returned at least once in the refinement under way, or
\* refinement has returned
Refined ==
  \/ pc = "refine_with" /\ stack[Len(stack)].k > 1
  \/ pc = "promotion"

\* C22: after every refine_with call, and at the end of refinement(), for
\* every MD node n attached in the forest of the subproblem and each
\* direction t: if n carries t then every MD ancestor of n carries t, and
\* every child of a PRIME ancestor also carries t.
C22_SplitMarksClosed == Refined => MarksClosed(heap, this_problem)

\* a refine_with has marked a node below a PRIME node of several children
C22_MarkedBelowPrime ==
  /\ Refined
  /\ \E n \in Forest(heap, this_problem) :
       /\ heap[n].split_type # "NO_SPLIT"
       /\ \E a \in MDAncestors(heap, n) :
            heap[a].type = "PRIME" /\ heap[a].num_children >= 2

-----------------------------------------------------------------------------
(* add_split_mark on small trees of MD nodes *)

MaxMarkNodes == 3

NodeTypes == {"PRIME", "SERIES", "PARALLEL"}

SplitTypes == {"NO_SPLIT", "LEFT_SPLIT", "RIGHT_SPLIT", "BOTH_SPLIT"}

RECURSIVE AttachFrom(_, _, _)
\* node k and the nodes after it are made children of their parents
AttachFrom(h, parents, k) ==
  IF k > Len(h) THEN h
  ELSE AttachFrom(add_child(h, parents[k], k), parents, k + 1)

\* the trees of MaxMarkNodes MD nodes with root 1, of every shape, with
\* every node type and every split mark at every node
MarkedTrees ==
  LET nodes == 1..MaxMarkNodes
      Parents == {p \in [nodes -> 0..MaxMarkNodes] :
                    p[1] = None /\ \A n \in nodes \ {1} : p[n] \in 1..(n - 1)}
      fresh(types, marks) ==
        [n \in nodes |-> [_TedderMDNode(types[n]) EXCEPT !.split_type = marks[n]]]
  IN {AttachFrom(fresh(types, marks), p, 2) :
        p \in Parents, types \in [nodes -> NodeTypes], marks \in [nodes -> SplitTypes]}

MarksInit ==
  /\ pc = "marks"
  /\ heap \in MarkedTrees
  /\ call = [name |-> "none"]
  /\ stack = <<>> /\ arg = None /\ ret = None /\ tedder_tree = NoResult
  /\ graph = NoGraph
  /\ hm_tree = NoResult
  /\ tree = NoResult
  /\ classes = NoClasses
  /\ nest = PyList(<<>>) /\ decoded = NoResult /\ perm = <<>>
  /\ relabeled = [of_graph |-> NoResult, of_tree |-> NoResult]
  /\ root2 = NoResult
  /\ verdict = NoResult

\* the call self.add_split_mark(split_type); call keeps the heap before it
AddSplitMark ==
  /\ pc = "marks"
  /\ \E self \in 1..Len(heap) : \E split_type \in Directions :
       /\ heap' = add_split_mark(heap, self, split_type)
       /\ call' = [name |-> "add_split_mark", self |-> self,
                   argument |-> split_type, before |-> heap]
  /\ UNCHANGED <<graph, pc, hm_tree, nest, decoded, perm, relabeled,
                 stack, arg, ret, tedder_tree, tree, root2, classes, verdict>>

MarksNext == AddSplitMark

MarksSpec == MarksInit /\ [][MarksNext]_vars

\* the split mark that results from adding direction t to the mark s
WithDirection(s, t) ==
  IF s = "NO_SPLIT" \/ s = t THEN t ELSE "BOTH_SPLIT"

RECURSIVE BelowPrime(_, _)
\* the children of a PRIME node, and so on through its PRIME children
BelowPrime(h, self) ==
  IF h[self].type = "PRIME"
  THEN LET cs == Range(Children(h, self))
       IN cs \cup UNION {BelowPrime(h, c) : c \in cs}
  ELSE {}

SplitMarkAdded == pc = "marks" /\ call.name = "add_split_mark"

\* C23: add_split_mark(t) for t LEFT_SPLIT or RIGHT_SPLIT turns NO_SPLIT
\* into t, leaves t, turns the other direction into BOTH_SPLIT and leaves
\* BOTH_SPLIT; no node loses a direction it carried; a second call changes
\* nothing; when the node type is PRIME the same t is added to every child,
\* and so on through the PRIME children.
C23_SplitMarkAdded ==
  SplitMarkAdded =>
    LET before == call.before
        self == call.self
        t == call.argument
    IN /\ heap[self].split_type = WithDirection(before[self].split_type, t)
       /\ \A n \in 1..Len(heap) : \A d \in Directions :
            is_split_marked(before, n, d) => is_split_marked(heap, n, d)
       /\ add_split_mark(heap, self, t) = heap
       /\ \A c \in BelowPrime(before, self) :
            heap[c].split_type = WithDirection(before[c].split_type, t)

\* LEFT_SPLIT has been added to a PRIME node with a PRIME child: the child
\* carried RIGHT_SPLIT, its own child no mark
C23_AddedThroughPrimeChild ==
  /\ SplitMarkAdded
  /\ call.argument = "LEFT_SPLIT"
  /\ \E c \in BelowPrime(call.before, call.self) :
       /\ call.before[c].split_type = "RIGHT_SPLIT"
       /\ call.before[c].type = "PRIME"
       /\ \E d \in Range(Children(heap, c)) :
            call.before[d].split_type = "NO_SPLIT" /\ heap[d].split_type = "LEFT_SPLIT"

-----------------------------------------------------------------------------
(* The numbering of the (co-)components of a forest *)

\* the type number_by_comp numbers a root by: SERIES to the left of the
\* pivot, PARALLEL from the pivot on
ByType(h, self, root) ==
  LET roots == Children(h, self)
      at(n) == CHOOSE i \in 1..Len(roots) : roots[i] = n
  IN IF at(root) < at(h[self].pivot) THEN "SERIES" ELSE "PARALLEL"

\* the roots of the (co-)components of the tree of a root: its children
\* when its type is the type numbered by, the root otherwise
ComponentsOf(h, root, by_type) ==
  IF h[root].type = by_type THEN Children(h, root) ELSE <<root>>

\* the roots of the (co-)components of a forest, left to right
Components(h, self) ==
  LET roots == Children(h, self)
  IN FlattenSeq([i \in 1..Len(roots) |->
                   ComponentsOf(h, roots[i], ByType(h, self, roots[i]))])

\* the start numbers number_comps is tried with
StartNumbers == 0..1

\* C24: number_comps(start, by_type) returns the count of numbers consumed,
\* the number of children when the node type equals by_type (the subtree
\* of child i gets start + i) and 1 when the whole subtree gets start, so
\* that number_by_comp gives all nodes of one (co-)component the same
\* comp_number and each next one, left to right, a number one more.
C24_ComponentsNumbered ==
  /\ pc = "number_by_comp" =>
       \A root \in Roots(heap, this_problem) :
         \A start \in StartNumbers : \A by_type \in {"SERIES", "PARALLEL"} :
           LET numbered == number_comps(heap, root, start, by_type)
               comps == ComponentsOf(heap, root, by_type)
           IN /\ numbered.r = Len(comps)
              /\ \A i \in 1..Len(comps) : \A n \in Subtree(heap, comps[i]) :
                   numbered.h[n].comp_number = start + i - 1
  /\ pc = "number_by_tree" =>
       LET comps == Components(heap, this_problem)
       IN \A i \in 1..Len(comps) : \A n \in Subtree(heap, comps[i]) :
            heap[n].comp_number = i - 1

-----------------------------------------------------------------------------
(* get_max_subtrees and group_sibling_nodes on the forests of refinement *)

\* the longest list of leaves tried in every order
MaxListed == 3

Reversed(s) == [i \in 1..Len(s) |-> s[Len(s) + 1 - i]]

RECURSIVE Picked(_, _, _)
\* the members of a list at the positions of a set, from position i on
Picked(s, positions, i) ==
  IF i > Len(s) THEN <<>>
  ELSE (IF i \in positions THEN <<s[i]>> ELSE <<>>) \o Picked(s, positions, i + 1)

\* lists of distinct leaves of the forest: every set of leaves from left to
\* right and from right to left, and up to MaxListed leaves in every order
LeafLists(h, self) ==
  LET leaves == get_leaves(h, self)
      sublists == {Picked(leaves, positions, 1) : positions \in SUBSET (1..Len(leaves))}
      short == UNION {{s \in [1..k -> Range(leaves)] :
                         \A i, j \in 1..k : i # j => s[i] # s[j]} : k \in 0..MaxListed}
  IN sublists \cup {Reversed(s) : s \in sublists} \cup short

\* the MD nodes, attached or not
MDNodes(h) == {n \in 1..Len(h) : h[n].kind \in {"_TedderMDNode", "_TedderMDLeafNode"}}

Unmarked(h) == \A n \in MDNodes(h) : h[n].num_marks = 0

\* the roots of the maximal subtrees all of whose leaves are listed
MaximalSubtrees(h, self, leaves) ==
  LET listed(n) == Range(get_leaves(h, n)) \subseteq Range(leaves)
  IN {n \in Forest(h, self) : listed(n) /\ (is_root(h, n) \/ ~listed(h[n].parent))}

\* refinement is under way on a forest without marks
Refining == pc = "refine_with" /\ Unmarked(heap)

\* C25: for any list of distinct leaves of the forest, with all num_marks 0
\* on entry, get_max_subtrees returns exactly the roots of the maximal
\* subtrees all of whose leaves are in the list, each once and none a
\* descendant of another, and on return every node has num_marks 0.
C25_MaximalSubtreesFound ==
  Refining =>
    \A leaves \in LeafLists(heap, this_problem) :
      LET found == get_max_subtrees(heap, this_problem, leaves)
      IN /\ Range(found.r) = MaximalSubtrees(heap, this_problem, leaves)
         /\ \A i, j \in 1..Len(found.r) :
              i # j => found.r[i] \notin Subtree(heap, found.r[j])
         /\ Unmarked(found.h)

\* a list of leaves of the forest covers a subtree of several leaves that
\* is not a whole tree, and a leaf whose siblings are not all listed
C25_SubtreeAndLeafFound ==
  /\ Refining
  /\ \E leaves \in LeafLists(heap, this_problem) :
       LET found == get_max_subtrees(heap, this_problem, leaves)
       IN /\ \E n \in Range(found.r) :
               heap[n].num_children >= 2 /\ ~is_root(heap, n)
          /\ \E n \in Range(found.r) :
               heap[n].num_children = 0 /\ ~is_root(heap, n)

\* the supplied nodes that are children of a parent, for the parents with
\* two or more supplied children
SiblingGroups(h, nodes) ==
  LET supplied == Range(nodes)
      parents == {h[n].parent : n \in {m \in supplied : ~is_root(h, m)}}
      group(p) == {n \in supplied : h[n].parent = p}
  IN {group(p) : p \in {q \in parents : Cardinality(group(q)) >= 2}}

\* the supplied roots of trees and the supplied nodes without supplied sibling
Ungrouped(h, nodes) ==
  {n \in Range(nodes) : \A g \in SiblingGroups(h, nodes) : n \notin g}

\* the attributes copy() gives a new node
Attributes(node) ==
  <<node.type, node.comp_number, node.tree_number, node.split_type>>

\* group_sibling_nodes(nodes) has taken the heap from before to after and
\* returned the list groups, as C26 states
Grouped(before, after, nodes, groups) ==
  LET new == {n \in Range(groups) : n > Len(before)}
  IN /\ Range(groups) \ new = Ungrouped(before, nodes)
     /\ \A n \in Ungrouped(before, nodes) :
          /\ after[n].parent = before[n].parent
          /\ Children(after, n) = Children(before, n)
          /\ Attributes(after[n]) = Attributes(before[n])
     /\ Len(groups) = Cardinality(Range(groups))
     /\ Cardinality(new) = Cardinality(SiblingGroups(before, nodes))
     /\ Len(after) = Len(before) + Cardinality(new)
     /\ \A g \in SiblingGroups(before, nodes) :
          \E n \in new :
            LET parent == before[CHOOSE m \in g : TRUE].parent
            IN /\ after[n].parent = parent
               /\ Attributes(after[n]) = Attributes(before[parent])
               /\ Range(Children(after, n)) = g
     /\ \A m \in MDNodes(before) \ Range(nodes) : after[m].parent = before[m].parent
     /\ Unmarked(after)

\* C26: group_sibling_nodes(nodes), given the pairwise non-nested roots
\* returned by get_max_subtrees, returns every supplied root of a tree and
\* every supplied node without supplied sibling unchanged, and for each
\* parent with two or more supplied children inserts one new node with the
\* attributes of the parent whose children are exactly those; no node that
\* was not supplied is moved under a new node; every num_marks is 0 on
\* return.
C26_SiblingsGrouped ==
  Refining =>
    \A leaves \in LeafLists(heap, this_problem) :
      LET found == get_max_subtrees(heap, this_problem, leaves)
          grouped == group_sibling_nodes(found.h, this_problem, found.r)
      IN Grouped(found.h, grouped.h, found.r, grouped.r)

-----------------------------------------------------------------------------
(* The alpha lists after complete_alpha_lists *)

\* the leaves of the forest of a subproblem
Leaves(h, self) == Range(get_leaves(h, self))

\* every leaf there is, inside the subproblem or not
AllLeaves(h) == {n \in 1..Len(h) : h[n].kind = "_TedderMDLeafNode"}

NoDuplicates(s) == \A i, j \in 1..Len(s) : i # j => s[i] # s[j]

\* the alpha lists of a set of leaves are symmetric and without duplicates
AlphaComplete(h, leaves) ==
  /\ \A x, y \in leaves : y \in Range(h[x].alpha) <=> x \in Range(h[y].alpha)
  /\ \A x \in leaves : NoDuplicates(h[x].alpha)
  /\ \A x \in leaves : h[x].num_marks = 0

\* complete_alpha_lists has returned
AlphaListsCompleted == pc = "number_by_comp"

\* C27: after complete_alpha_lists(), for all leaves x and y of the
\* subproblem: y is in the alpha list of x iff x is in the alpha list of y;
\* no alpha list holds a leaf twice; every leaf's num_marks is 0.
C27_AlphaListsComplete ==
  AlphaListsCompleted => AlphaComplete(heap, Leaves(heap, this_problem))

\* a leaf of the subproblem has a completed alpha list of several leaves
C27_SeveralAlphaNeighbors ==
  /\ AlphaListsCompleted
  /\ \E x \in Leaves(heap, this_problem) : Len(heap[x].alpha) >= 2

-----------------------------------------------------------------------------
(* pivot_problem *)

\* the members of a list that are in a set, in the order of the list
Within(s, set) == SelectSeq(s, LAMBDA n : n \in set)

\* a list with every a put for b
Renamed(s, b, a) == [i \in 1..Len(s) |-> IF s[i] = b THEN a ELSE s[i]]

\* node r of heap after has the place node s had in heap before: the parent
\* of s, and the place of s among the former siblings of s that are still
\* children of that parent
InPlaceOf(before, after, s, r) ==
  LET parent == before[s].parent
  IN /\ after[r].parent = parent
     /\ parent # None =>
          LET then == Children(before, parent)
              now == Children(after, parent)
          IN /\ s \notin Range(now)
             /\ Within(Renamed(now, r, s), Range(then))
                  = Within(then, Range(now) \cup {s})
     /\ parent = None => after[r].left_sibling = None /\ after[r].right_sibling = None

\* the neighbours of the first leaf of subproblem s that are not visited
\* and are leaves of s
NewNeighbors(h, s) ==
  LET pivot == h[s].first_child
  IN {n \in Range(h[pivot].neighbors) : ~h[n].visited /\ h[n].parent = s}

IsNewProblem(before, after, n) ==
  n > Len(before) /\ after[n].kind = "_TedderSubProblem"

\* pivot_problem on s has taken the heap from before to after and returned
\* r, as C28 states
Pivoted(before, after, s, r) ==
  LET pivot == before[s].first_child
      adjacent == NewNeighbors(before, s)
      others == Range(Children(before, s)) \ (adjacent \cup {pivot})
      layers == Children(after, r)
      first == IF adjacent = {} THEN 1 ELSE 2
  IN /\ IsNewProblem(before, after, r)
     /\ InPlaceOf(before, after, s, r)
     /\ after[r].connected = before[s].connected
     /\ after[r].active = before[s].active
     /\ after[r].pivot = pivot
     /\ after[pivot].visited
     /\ Len(layers) = first + (IF others = {} THEN 0 ELSE 1)
     /\ adjacent # {} =>
          /\ IsNewProblem(before, after, layers[1])
          /\ after[layers[1]].connected
          /\ Range(Children(after, layers[1])) = adjacent
     /\ IsNewProblem(before, after, layers[first])
     /\ after[layers[first]].connected
     /\ Children(after, layers[first]) = <<pivot>>
     /\ others # {} =>
          /\ layers[Len(layers)] = s
          /\ ~after[s].connected /\ ~after[s].active /\ after[s].pivot = None
          /\ Range(Children(after, s)) = others

\* solve is about to call pivot_problem on a subproblem of several leaves
Pivoting == pc = "solve" /\ heap[arg].num_children >= 2

\* C28: pivot_problem on a subproblem S with two or more leaves returns a
\* new subproblem R that has the former place of S and the former connected
\* and active flags of S; the pivot of R is the former first leaf of S, now
\* visited; the children of R are, left to right: a connected subproblem
\* with the not yet visited neighbours of the pivot that were in S (left out
\* when there are none), a connected subproblem with the pivot alone, and S
\* itself, its attributes reset, with the remaining leaves (left out when
\* there are none).
C28_ProblemPivoted ==
  Pivoting =>
    LET before == [heap EXCEPT ![arg].active = TRUE]
        pivoted == pivot_problem(before, arg)
    IN Pivoted(before, pivoted.h, arg, pivoted.r)

\* pivot_problem is called on a subproblem that has a parent and a left
\* sibling, and gives the new subproblem three children: the pivot has
\* unvisited neighbours in the subproblem, and leaves remain
C28_ThreeLayers ==
  /\ Pivoting
  /\ heap[arg].parent # None
  /\ heap[arg].left_sibling # None
  /\ NewNeighbors(heap, arg) # {}
  /\ LET pivoted == pivot_problem([heap EXCEPT ![arg].active = TRUE], arg)
     IN /\ Len(Children(pivoted.h, pivoted.r)) = 3
        /\ pivoted.h[pivoted.r].left_sibling = heap[arg].left_sibling

-----------------------------------------------------------------------------
(* The tree solve returns *)

\* the transient fields of the nodes of the subtree of a root are reset
Cleared(h, root) ==
  \A n \in Subtree(h, root) :
    /\ h[n].comp_number = -1
    /\ h[n].tree_number = -1
    /\ h[n].num_marks = 0
    /\ h[n].split_type = "NO_SPLIT"
    /\ h[n].kind = "_TedderMDLeafNode" => h[n].alpha = <<>>

\* a node is the only child of a subproblem
SoleChild(h, root) ==
  LET parent == h[root].parent
  IN /\ parent # None
     /\ h[parent].kind = "_TedderSubProblem"
     /\ Children(h, parent) = <<root>>

\* solve has come to its last statements on a subproblem of several leaves
Cleaning == pc = "clear_all_but_visited" /\ Len(get_leaves(heap, this_problem)) >= 2

\* solve has returned the root of a tree of several leaves
SolveReturned == pc = "return" /\ Len(get_leaves(heap, ret)) >= 2

\* C29: when solve returns on a subproblem with two or more leaves, the
\* returned root is the sole child of its parent subproblem; every node of
\* the returned subtree has comp_number -1, tree_number -1, num_marks 0 and
\* split_type NO_SPLIT; every leaf of it has an empty alpha list; the
\* cleanup changes the visited flag of no leaf.
C29_ReturnedTreeCleared ==
  /\ SolveReturned => SoleChild(heap, ret) /\ Cleared(heap, ret)
  /\ Cleaning =>
       LET after == clear_all_but_visited(heap, this_problem)
       IN \A n \in AllLeaves(heap) : after[n].visited = heap[n].visited

\* solve has returned, to the solve of an enclosing subproblem, a tree with
\* an internal node below its root
C29_NestedTreeReturned ==
  /\ SolveReturned
  /\ stack # <<>>
  /\ \E n \in Range(Children(heap, ret)) : heap[n].num_children >= 2

-----------------------------------------------------------------------------
(* The pivots of one call of tedder_algorithm *)

\* no step takes the visited flag of a leaf from True to False
VisitedKept ==
  \A n \in AllLeaves(heap) : heap[n].visited => n \in AllLeaves(heap') /\ heap'[n].visited

\* solve chooses the first leaf of its subproblem as the pivot, in
\* pivot_problem or in its branch for a single node: a leaf that is chosen
\* has not been chosen before, that is, is not visited
PivotIsNew == pc = "solve" => ~heap[heap[arg].first_child].visited

\* main_problem.solve(1) has returned
TopLevelReturned == pc = "return" /\ stack = <<>>

AllVisited == \A n \in AllLeaves(heap) : heap[n].visited

\* C30: during one call of tedder_algorithm the visited flag of a leaf,
\* once True, never becomes False; each leaf is chosen as the pivot, by
\* pivot_problem or by the single-node branch of solve, exactly once; when
\* the top-level solve returns every leaf is visited.
C30_EachLeafPivotsOnce ==
  [][/\ VisitedKept
     /\ PivotIsNew
     /\ TopLevelReturned => AllVisited]_vars

====
